---- MODULE Spec2Model ----
(***************************************************************************)
(* Agentic Project Builder: the LangGraph pipeline                         *)
(*   planner -> architect -> coder (self loop) -> reviewer <-> fixer       *)
(*           -> test_generator -> test_runner -> finalizer -> END          *)
(* The graph is built with StateGraph(dict): the state is one dict and     *)
(* the dict a stage returns is the next state (keys a stage does not       *)
(* return are absent afterwards).  An absent key and a None value are both *)
(* modelled as None, as every stage reads the state with state.get().      *)
(*                                                                         *)
(* File content is modelled by its length in characters (0 = the file does *)
(* not exist, read_file returns "").  LLM answers, read/write failures and *)
(* command results are nondeterministic choices inside each stage.         *)
(***************************************************************************)
EXTENDS Integers, Sequences, FiniteSets, TLC

VARIABLES
    node,             \* the graph node that runs next ("END" after finalizer)
    state,            \* the state dict threaded through the stages
    disk,             \* project tree: path -> content length (0 = absent)
    recursion_limit,  \* the step budget passed to agent.invoke
    calls,            \* per stage: number of invocations in this run
    last,             \* the stage that ran last ("none" before the first)
    io,               \* what the last stage did at its boundaries (files read, LLM requests, fix report)
    recovery,         \* a call of a structured-output recovery routine: its input and what it came to
    tool              \* a call of a file tool: the path argument, the result text and the locations touched

vars == <<node, state, disk, recursion_limit, calls, last, io, recovery, tool>>

\* state.get(key) of an absent key: None for the keys that hold objects or
\* lists, NoStr for the keys that hold strings
None == <<>>
NoStr == "None"

----------------------------------------------------------------------------
(* Bounds of the model *)

MaxIssues == 1           \* an LLM review lists no issue or MaxIssues issues
SmallRecursionLimit == 4 \* a step budget small enough to be exhausted
MaxPriorIteration == 6   \* iteration counters of the ReviewStates handed to one Reviewer pass
MaxPlanFiles == 3        \* files of the Plans handed to one Architect call

(* Program constants *)
DefaultRecursionLimit == 100
DefaultMaxIterations == 5
ReviewStateMaxIterations == 3

Paths == {"index.html", "script.js"}
TestChecklist == "tests/test_checklist.md"
TestMain == "tests/test_main.py"
Readme == "README.md"
\* (pytest.ini is written by the TestGenerator and read by no stage: not tracked)
AllPaths == Paths \cup {TestChecklist, TestMain, Readme}

Stages == {"planner", "architect", "coder", "reviewer", "fixer",
           "test_generator", "test_runner", "finalizer"}

\* content lengths the Coder's generations produce
ContentLens == {50}
\* content lengths of the files a single Reviewer pass may find: absent, tiny
\* (< 5 characters) and long
PriorLens == {0, 4, 50}
\* lengths of the fixed bodies the Fixer's generations produce: empty, tiny
\* (< 10 characters), short (< 30% of a long file) and long
FixLens == {0, 4, 12, 50}
\* length of the text read_file returns when the read fails ("ERROR: Failed to read ...")
ErrorTextLen == 30

----------------------------------------------------------------------------
(* Sequences *)

Range(s) == {s[i] : i \in DOMAIN s}

\* all sequences that take their i-th element from sets[i]
RECURSIVE Product(_)
Product(sets) ==
    IF sets = <<>> THEN {<<>>}
    ELSE {Append(f, x) : f \in Product(SubSeq(sets, 1, Len(sets) - 1)),
                         x \in sets[Len(sets)]}

Front(s) == SubSeq(s, 1, Len(s) - 1)

----------------------------------------------------------------------------
(* The state dict *)

EmptyState ==
    [user_prompt |-> NoStr, plan |-> None, task_plan |-> None,
     coder_state |-> None, review_state |-> None, test_run_state |-> None,
     current_phase |-> NoStr, status |-> NoStr, errors |-> None,
     final_summary |-> NoStr, project_path |-> NoStr]

\* the dict every stage returns on its "required input absent" branch
FailedState(base, msg) ==
    [base EXCEPT !.current_phase = "failed", !.status = "FAILED", !.errors = <<msg>>]

\* outcome of llm.with_structured_output(Schema).invoke(prompt):
\*   "ok"      a record is returned
\*   "none"    the call returns None
\*   "salvage" it raises, the text has "failed_generation" and the parser recovers a record
\*   "garbage" it raises, the text has "failed_generation" and the parser returns None
\*   "raises"  it raises without "failed_generation" in the text
StructuredKinds == {"ok", "none", "salvage", "garbage", "raises"}

----------------------------------------------------------------------------
(* Planner *)

\* the Plans the LLM answers with (declaration order differs from priority order)
Plans == {[files |-> <<"script.js", "index.html">>]}

PlannerOutcomes ==
    {[kind |-> k, plan |-> p] : k \in {"ok", "salvage"}, p \in Plans}
    \cup {[kind |-> k, plan |-> None] : k \in {"none", "garbage", "raises"}}

planner_return(s, out) ==
    LET user_prompt == IF s.user_prompt = NoStr THEN "" ELSE s.user_prompt
        plan == IF out.kind \in {"ok", "salvage"} THEN out.plan ELSE None
    IN IF user_prompt = ""
       THEN FailedState(EmptyState, "No user prompt provided")
       ELSE IF plan = None
       THEN FailedState(EmptyState, "Failed to create project plan")
       ELSE [EmptyState EXCEPT !.user_prompt = user_prompt, !.plan = plan,
                               !.current_phase = "planning", !.status = "planned"]

----------------------------------------------------------------------------
(* Architect *)

\* an ImplementationTask without dependencies
Task(filepath, priority) ==
    [filepath |-> filepath, priority |-> priority, dependencies |-> <<>>]

\* the implementation_steps the LLM answers with: none, one, two files out of
\* priority order, two tasks for one file
LlmSteps ==
    {<<>>,
     <<Task("index.html", 0)>>,
     <<Task("script.js", 3), [Task("index.html", 1) EXCEPT !.dependencies = <<"script.js">>]>>,
     <<Task("index.html", 0), Task("index.html", 0)>>}

\* list.sort(key=lambda x: x.priority): stable, ascending
RECURSIVE InsertByPriority(_, _)
InsertByPriority(x, s) ==
    IF s = <<>> THEN <<x>>
    ELSE IF s[Len(s)].priority <= x.priority THEN Append(s, x)
    ELSE Append(InsertByPriority(x, Front(s)), s[Len(s)])

\* variant: the steps are left in the order they came in
SortByPriority_off(s) == s

RECURSIVE SortByPriority(_)
SortByPriority(s) ==
    IF s = <<>> THEN <<>>
    ELSE InsertByPriority(s[Len(s)], SortByPriority(Front(s)))

\* '.' + path.split('.')[-1] if '.' in path else ''
Ext(path) ==
    CASE path = "index.html" -> ".html"
      [] path = "script.js" -> ".js"
      [] path = "style.css" -> ".css"
      [] path = "data.json" -> ".json"
      [] path = "README.md" -> ".md"
      [] path = "tests/test_checklist.md" -> ".md"
      [] path = "tests/test_main.py" -> ".py"
      [] OTHER -> ""

\* variant: markup comes first, before data files
priority_map_html_first(ext, i) ==
    CASE ext = ".json" -> 1
      [] ext = ".html" -> 0
      [] ext = ".css" -> 2
      [] ext = ".js" -> 3
      [] ext = ".py" -> 1
      [] ext = ".md" -> 4
      [] OTHER -> i

\* priority_map.get(ext, i)
priority_map(ext, i) ==
    CASE ext = ".json" -> 0
      [] ext = ".html" -> 1
      [] ext = ".css" -> 2
      [] ext = ".js" -> 3
      [] ext = ".py" -> 1
      [] ext = ".md" -> 4
      [] OTHER -> i

\* variant: every task depends on every file of the Plan
create_fallback_task_plan_all_files(plan) ==
    LET fallback_steps ==
            [i \in 1..Len(plan.files) |->
                [filepath |-> plan.files[i],
                 priority |-> priority_map(Ext(plan.files[i]), i - 1),
                 dependencies |-> plan.files]]
    IN [implementation_steps |-> SortByPriority(fallback_steps)]

\* architect.py:48-84; dependencies=[f.path for f in plan.files[:i]]
create_fallback_task_plan(plan) ==
    LET fallback_steps ==
            [i \in 1..Len(plan.files) |->
                [filepath |-> plan.files[i],
                 priority |-> priority_map(Ext(plan.files[i]), i - 1),
                 dependencies |-> SubSeq(plan.files, 1, i - 1)]]
    IN [implementation_steps |-> SortByPriority(fallback_steps)]

ArchitectOutcomes ==
    {[kind |-> k, steps |-> t] : k \in {"ok", "salvage"}, t \in LlmSteps}
    \cup {[kind |-> k, steps |-> <<>>] : k \in {"none", "garbage", "raises"}}

\* variant: the Architect fails when the structured request raised without a
\* recoverable payload
architect_return_fails(s, out) ==
    LET plan == s.plan
        task_plan ==
            IF out.kind \in {"ok", "salvage"}
            THEN [implementation_steps |-> SortByPriority(out.steps)]
            ELSE create_fallback_task_plan(plan)
    IN IF plan = None \/ out.kind = "raises"
       THEN FailedState(EmptyState, "No plan provided to architect")
       ELSE [EmptyState EXCEPT !.plan = plan, !.task_plan = task_plan,
                               !.current_phase = "architecting", !.status = "architected"]

architect_return(s, out) ==
    LET plan == s.plan
        task_plan ==
            IF out.kind \in {"ok", "salvage"}
            THEN [implementation_steps |-> SortByPriority(out.steps)]
            ELSE create_fallback_task_plan(plan)
    IN IF plan = None
       THEN FailedState(EmptyState, "No plan provided to architect")
       ELSE [EmptyState EXCEPT !.plan = plan, !.task_plan = task_plan,
                               !.current_phase = "architecting", !.status = "architected"]

----------------------------------------------------------------------------
(* Coder *)

\* What each boundary of one step comes to when the step calls it.
\*  react:   "returns"            react_agent.invoke returned, having written `wrote`
\*                                characters to the task's file through its write_file
\*                                tool (0 = nothing)
\*           "failed_generation"  it raised a tool-call-format error
\*           "raises"             it raised another error
\*           "escapes"            an error was raised before the tiers (coder.py:125-141)
\*  extract: "written"            extract_and_execute_tool_call wrote `len` characters to `path`
\*           "not_written"        no call found, empty path/content, or the write failed
\*  direct:  "written"            the direct generation wrote `len` characters to the task's file
\*           "empty", "write_failed", "raises"
CoderBoundaries ==
    [react : {"returns", "failed_generation", "raises", "escapes"},
     extract : {"written", "not_written"},
     direct : {"written", "empty", "write_failed", "raises"},
     path : Paths, wrote : {0} \cup ContentLens, len : ContentLens]

\* variant: the direct generation runs whatever the earlier tiers came to
coder_tiers_all_run(b) ==
    LET tier2 == IF b.react = "failed_generation" THEN b.extract ELSE "-"
        tier3 == IF b.react # "escapes" THEN b.direct ELSE "-"
    IN  [tier1 |-> b.react, tier2 |-> tier2, tier3 |-> tier3,
         path |-> IF tier2 = "written" THEN b.path ELSE "-",
         len |-> IF b.react = "returns" THEN b.wrote
                 ELSE IF tier2 = "written" \/ tier3 = "written" THEN b.len ELSE 0]

\* the tiers one step runs (coder.py:143-211): tier 1 is the tool-calling
\* agent; tier 2 runs in its except branch when the error text holds
\* "failed_generation"; tier 3 runs there when file_written is still False.
\* "-" marks a tier that did not run.
coder_tiers(b) ==
    LET tier2 == IF b.react = "failed_generation" THEN b.extract ELSE "-"
        tier3 == IF b.react \in {"failed_generation", "raises"} /\ tier2 # "written"
                 THEN b.direct ELSE "-"
    IN  [tier1 |-> b.react, tier2 |-> tier2, tier3 |-> tier3,
         path |-> IF tier2 = "written" THEN b.path ELSE "-",
         len |-> IF b.react = "returns" THEN b.wrote
                 ELSE IF tier2 = "written" \/ tier3 = "written" THEN b.len ELSE 0]

\* One step's outcomes: the tiers that ran and what they came to
CoderOutcomes ==
    {coder_tiers(b) : b \in CoderBoundaries}

\* A CoderState. Its task_plan field is the TaskPlan object of the state dict
\* (coder.py:99-101, reviewer.py:109-110) and every stage hands both on together,
\* so the model keeps it once, as state.task_plan.
NewCoderState ==
    [current_step_idx |-> 0, completed_files |-> <<>>, failed_files |-> <<>>]

\* variant: an error that escapes the tiers counts as a written file
file_written_on_escape(out) ==
    \/ out.tier1 \in {"returns", "escapes"}
    \/ out.tier1 = "failed_generation" /\ out.tier2 = "written"
    \/ out.tier1 \in {"failed_generation", "raises"} /\ out.tier3 = "written"

\* file_written at coder.py:213
file_written(out) ==
    \/ out.tier1 = "returns"
    \/ out.tier1 = "failed_generation" /\ out.tier2 = "written"
    \/ out.tier1 \in {"failed_generation", "raises"} /\ out.tier3 = "written"

\* the project tree after the step for `filepath`
coder_disk(d, filepath, out) ==
    IF out.tier1 = "returns" /\ out.len > 0 THEN [d EXCEPT ![filepath] = out.len]
    ELSE IF out.tier1 = "failed_generation" /\ out.tier2 = "written"
    THEN [d EXCEPT ![out.path] = out.len]
    ELSE IF out.tier1 \in {"failed_generation", "raises"} /\ out.tier3 = "written"
    THEN [d EXCEPT ![filepath] = out.len]
    ELSE d

\* variant: a failed step does not advance the index
coder_advance_stalls(cs, filepath, out) ==
    IF file_written(out)
    THEN [cs EXCEPT !.completed_files = Append(@, filepath),
                    !.current_step_idx = @ + 1]
    ELSE [cs EXCEPT !.failed_files = Append(@, filepath)]

\* the CoderState after the step for `filepath` (coder.py:213-224)
coder_advance(cs, filepath, out) ==
    IF file_written(out)
    THEN [cs EXCEPT !.completed_files = Append(@, filepath),
                    !.current_step_idx = @ + 1]
    ELSE [cs EXCEPT !.failed_files = Append(@, filepath),
                    !.current_step_idx = @ + 1]

\* the status the Coder reports (coder.py:105-113, 226-241)
coder_status(cs, steps_) ==
    IF cs.current_step_idx >= Len(steps_) THEN "coded" ELSE "coding"

\* variant: every invocation starts from a fresh CoderState
entry_coder_state_fresh(s) ==
    NewCoderState

\* the CoderState an invocation works on (coder.py:96-101)
entry_coder_state(s) ==
    IF s.coder_state = None THEN NewCoderState ELSE s.coder_state

\* whether this invocation attempts a step (coder.py:89, 105)
coder_attempts(s) ==
    /\ s.task_plan # None
    /\ entry_coder_state(s).current_step_idx < Len(s.task_plan.implementation_steps)

\* the file of the step this invocation attempts (current_step_idx is 0-based)
current_task(s) ==
    s.task_plan.implementation_steps[entry_coder_state(s).current_step_idx + 1].filepath

coder_return(s, out) ==
    LET task_plan == s.task_plan
        coder_state == entry_coder_state(s)
        after == IF coder_attempts(s)
                 THEN coder_advance(coder_state, current_task(s), out)
                 ELSE coder_state
    IN IF task_plan = None
       THEN FailedState(EmptyState, "No task plan provided to coder")
       ELSE [EmptyState EXCEPT !.plan = s.plan, !.task_plan = task_plan,
                               !.coder_state = after,
                               !.current_phase = "coding",
                               !.status = coder_status(after, task_plan.implementation_steps)]

\* variant: a Coder that returned no CoderState is selected again
route_after_coder_retries(s) ==
    LET coder_state == s.coder_state
    IN IF coder_state = None THEN "coder"
       ELSE IF coder_state.current_step_idx >= Len(s.task_plan.implementation_steps)
       THEN "reviewer"
       ELSE "coder"

\* variant: the Coder is always selected again
route_after_coder_always_coder(s) == "coder"

\* variant: the Reviewer is selected one step early
route_after_coder_early(s) ==
    LET coder_state == s.coder_state
    IN IF coder_state = None THEN "reviewer"
       ELSE IF coder_state.current_step_idx + 1 >= Len(s.task_plan.implementation_steps)
       THEN "reviewer"
       ELSE "coder"

route_after_coder(s) ==
    LET coder_state == s.coder_state
    IN IF coder_state = None THEN "reviewer"
       ELSE IF coder_state.current_step_idx >= Len(s.task_plan.implementation_steps)
       THEN "reviewer"
       ELSE "coder"

----------------------------------------------------------------------------
(* Reviewer *)

Min(a, b) == IF a <= b THEN a ELSE b

\* a CodeReview: issues is len(review.issues)
CodeReview(filepath, passed, issues) ==
    [filepath |-> filepath, passed |-> passed, issues |-> issues]

\* One file's boundary outcomes in a Reviewer pass.
\*  "read_error"  read_file returned an "ERROR..." text
\*  "structured"  the structured request returned a CodeReview (all its fields,
\*                filepath included, are the LLM's; own = it names the reviewed file)
\*  "salvage"     the structured request raised and parse_review_from_error
\*                recovered a CodeReview
\*  "text"        no structured review; the PASS/FAIL text reply was parsed
\*                (issues = len(extract_issues_from_response(...)))
\*  "error"       an error was raised inside the per-file try
\* A recovered or text review that passes yields the CodeReview of a structured
\* one that passes; the failing ones are listed for each path.
ReviewOutcomes ==
    {[kind |-> "read_error", filepath |-> "-", passed |-> FALSE, issues |-> 0]}
    \cup {[kind |-> "structured", filepath |-> "own", passed |-> TRUE, issues |-> 0]}
    \cup {[kind |-> "structured", filepath |-> "own", passed |-> FALSE, issues |-> n] :
            n \in {0, MaxIssues}}
    \cup {[kind |-> "structured", filepath |-> p, passed |-> FALSE, issues |-> MaxIssues] :
            p \in Paths}
    \cup {[kind |-> "salvage", filepath |-> "-", passed |-> FALSE, issues |-> 0]}
    \cup {[kind |-> "text", filepath |-> "-", passed |-> FALSE, issues |-> n] :
            n \in {0, MaxIssues}}
    \cup {[kind |-> "error", filepath |-> "-", passed |-> TRUE, issues |-> 0]}

\* str.strip(): the text without its leading and trailing blanks
RECURSIVE strip(_)
strip(content) ==
    IF content = <<>> THEN content
    ELSE IF content[1] = " " THEN strip(Tail(content))
    ELSE IF content[Len(content)] = " " THEN strip(Front(content))
    ELSE content

\* reviewer.py:189-203: the CodeReview written for a file without content
missing_file_review(filepath) ==
    [filepath |-> filepath,
     issues |-> <<[issue_type |-> "missing", severity |-> "critical"]>>,
     passed |-> FALSE, overall_quality |-> 0, summary |-> "File missing or empty"]

\* the CodeReview the state dict keeps for a review: its issues counted
Counted(review) ==
    CodeReview(review.filepath, review.passed, Len(review.issues))

\* variant: only a file of no characters at all counts as missing
missing_or_empty_absent_only(d, filepath, out) ==
    out.kind = "read_error" \/ d[filepath] = 0

\* reviewer.py:188: not content or content.startswith("ERROR") or
\* len(content.strip()) < 5; d[filepath] is the length of the stripped content
missing_or_empty(d, filepath, out) ==
    out.kind = "read_error" \/ d[filepath] < 5

\* variant: a failed review without issues is left as it is
upgrade_unspecified_off(review) == review

\* reviewer.py:293-301
upgrade_unspecified(review) ==
    IF ~review.passed /\ review.issues = 0 THEN [review EXCEPT !.issues = 1] ELSE review

\* variant: a review that raised counts against the file
error_review_failed(filepath) ==
    [filepath |-> filepath, issues |-> <<>>, passed |-> FALSE, overall_quality |-> 6,
     summary |-> "Review error"]

\* reviewer.py:313-323: the CodeReview written when the review of a file raised
error_review(filepath) ==
    [filepath |-> filepath, issues |-> <<>>, passed |-> TRUE, overall_quality |-> 6,
     summary |-> "Review error"]

\* reviewer.py:208-324: the review of a file that has content
review_file(filepath, out) ==
    IF out.kind = "error" THEN Counted(error_review(filepath))
    ELSE IF out.kind = "structured"
    THEN upgrade_unspecified(
            CodeReview(IF out.filepath = "own" THEN filepath ELSE out.filepath,
                       out.passed, out.issues))
    ELSE IF out.kind = "salvage"
    THEN upgrade_unspecified(CodeReview(filepath, out.passed, out.issues))
    ELSE upgrade_unspecified(
            CodeReview(filepath, out.passed,
                       IF out.passed THEN 0
                       ELSE IF out.issues > 0 THEN Min(out.issues, 2) ELSE 1))

\* preserved_reviews[filepath] (reviewer.py:142-144): the last passed review of the path
RECURSIVE preserved_review(_, _)
preserved_review(reviews, filepath) ==
    IF reviews = <<>> THEN None
    ELSE LET r == reviews[Len(reviews)]
         IN IF r.passed /\ r.filepath = filepath THEN r
            ELSE preserved_review(Front(reviews), filepath)

\* list(preserved_reviews.values()): keys in first-insertion order, last value of each
RECURSIVE preserved_values(_, _, _)
preserved_values(reviews, i, all) ==
    IF i > Len(reviews) THEN <<>>
    ELSE LET r == reviews[i]
             first == r.passed /\ \A j \in 1..(i - 1) :
                         ~(reviews[j].passed /\ reviews[j].filepath = r.filepath)
         IN IF first
            THEN <<preserved_review(all, r.filepath)>> \o preserved_values(reviews, i + 1, all)
            ELSE preserved_values(reviews, i + 1, all)

\* reviewer.py:174-324: the loop over the steps, from step i on
\* acc = [reviews, all_passed, reads, requests]
RECURSIVE review_loop(_, _, _, _, _, _, _)
review_loop(steps_, outs, i, d, existing, first_pass, acc) ==
    IF i > Len(steps_) THEN acc
    ELSE
      LET filepath == steps_[i].filepath
          kept == IF first_pass THEN None ELSE preserved_review(existing, filepath)
          queued == IF first_pass THEN TRUE
                    ELSE \E j \in 1..Len(existing) :
                            ~existing[j].passed /\ existing[j].filepath = filepath
          out == outs[i]
          next ==
            IF kept # None
            THEN [acc EXCEPT !.reviews = Append(@, kept)]
            ELSE IF ~queued THEN acc
            ELSE IF missing_or_empty(d, filepath, out)
            THEN [acc EXCEPT !.reviews = Append(@, Counted(missing_file_review(filepath))),
                             !.all_passed = FALSE,
                             !.reads = @ \cup {filepath}]
            ELSE LET review == review_file(filepath, out)
                 IN [acc EXCEPT !.reviews = Append(@, review),
                                !.all_passed = IF out.kind # "error" /\ ~review.passed
                                               THEN FALSE ELSE @,
                                !.reads = @ \cup {filepath},
                                !.requests = @ \cup {filepath}]
      IN review_loop(steps_, outs, i + 1, d, existing, first_pass, next)

\* variant: every pass starts the count again
next_iteration_restarts(existing) ==
    0

\* variant: the iteration counter is not advanced
next_iteration_stuck(existing) ==
    IF existing = None THEN 0 ELSE existing.iteration

\* reviewer.py:128-140: the iteration number of this pass
next_iteration(existing) ==
    IF existing = None THEN 0 ELSE existing.iteration + 1

\* variant: the cap never forces acceptance
forced_acceptance_never(iteration, max_iterations) == FALSE

\* reviewer.py:156: the cap that forces acceptance
forced_acceptance(iteration, max_iterations) ==
    iteration >= max_iterations

\* the CoderState the Reviewer builds when none is in the state (reviewer.py:109-116)
AssumedCoderState(task_plan) ==
    [current_step_idx |-> Len(task_plan.implementation_steps),
     completed_files |-> [i \in 1..Len(task_plan.implementation_steps) |->
                            task_plan.implementation_steps[i].filepath],
     failed_files |-> <<>>]

\* [state |-> the returned dict, reads, requests |-> what the pass did at its boundaries]
reviewer_return(s, d, outs) ==
    LET coder_state == IF s.coder_state = None THEN AssumedCoderState(s.task_plan)
                       ELSE s.coder_state
        existing == s.review_state
        first_pass == existing = None
        iteration == next_iteration(existing)
        max_iterations == IF first_pass THEN DefaultMaxIterations
                          ELSE existing.max_iterations
        base == [EmptyState EXCEPT !.user_prompt = s.user_prompt, !.plan = s.plan,
                                   !.task_plan = s.task_plan]
        looped == review_loop(s.task_plan.implementation_steps, outs, 1, d,
                              IF first_pass THEN <<>> ELSE existing.reviews, first_pass,
                              [reviews |-> <<>>, all_passed |-> TRUE,
                               reads |-> {}, requests |-> {}])
    IN IF s.coder_state = None /\ s.task_plan = None
       THEN [state |-> FailedState(base, "No coder state or task plan available"),
             reads |-> {}, requests |-> {}]
       ELSE IF forced_acceptance(iteration, max_iterations)
       THEN [state |-> [base EXCEPT
                          !.coder_state = coder_state,
                          !.review_state =
                              [reviews |-> preserved_values(existing.reviews, 1, existing.reviews),
                               iteration |-> iteration,
                               max_iterations |-> max_iterations,
                               all_passed |-> TRUE],
                          !.current_phase = "reviewing",
                          !.status = "review_max_iterations"],
             reads |-> {}, requests |-> {}]
       ELSE [state |-> [base EXCEPT
                          !.coder_state = coder_state,
                          !.review_state =
                              [reviews |-> looped.reviews,
                               iteration |-> iteration,
                               max_iterations |-> max_iterations,
                               all_passed |-> looped.all_passed],
                          !.current_phase = "reviewing",
                          !.status = "reviewed"],
             reads |-> looped.reads, requests |-> looped.requests]

\* the steps a Reviewer pass loops over (none on its failure branch)
reviewer_steps(s) ==
    IF s.task_plan # None THEN s.task_plan.implementation_steps ELSE <<>>

\* the outcomes that matter for step i of a pass: one placeholder when the pass
\* does not reach the file's boundaries (preserved, not queued, forced acceptance)
\* or when the file on disk is missing whatever the read says
NoOutcome == [kind |-> "error", filepath |-> "-", passed |-> TRUE, issues |-> 0]

review_choices(s, d) ==
    LET steps_ == reviewer_steps(s)
        existing == s.review_state
        reached(i) ==
            IF existing = None THEN TRUE
            ELSE /\ ~forced_acceptance(next_iteration(existing), existing.max_iterations)
                 /\ preserved_review(existing.reviews, steps_[i].filepath) = None
                 /\ \E j \in 1..Len(existing.reviews) :
                        /\ ~existing.reviews[j].passed
                        /\ existing.reviews[j].filepath = steps_[i].filepath
    IN [i \in 1..Len(steps_) |->
            IF reached(i) /\ d[steps_[i].filepath] >= 5
            THEN {out \in ReviewOutcomes : out.filepath # steps_[i].filepath}
            ELSE {NoOutcome}]

\* variant: below the cap the Fixer is selected whether the reviews passed or not
route_after_review_until_cap(s) ==
    LET review_state == s.review_state
    IN IF review_state = None THEN "test_generator"
       ELSE IF review_state.iteration >= review_state.max_iterations THEN "test_generator"
       ELSE "fixer"

\* variant: the Fixer is selected whenever a ReviewState exists
route_after_review_to_fixer(s) ==
    IF s.review_state = None THEN "test_generator" ELSE "fixer"

route_after_review(s) ==
    LET review_state == s.review_state
    IN IF review_state = None THEN "test_generator"
       ELSE IF review_state.all_passed THEN "test_generator"
       ELSE IF review_state.iteration >= review_state.max_iterations THEN "test_generator"
       ELSE "fixer"

----------------------------------------------------------------------------
(* Fixer *)

\* One candidate file's boundary outcomes in a Fixer invocation.
\*  read:  "ok" | "error"   (read_file returned content / an "ERROR..." text)
\*  llm:   "ok" | "raises"  (llm.invoke(fix_prompt))
\*  len:   length of the fixed body after code extraction and strip
\*  write: "ok" | "fail"    (write_file returned SUCCESS / ERROR)
FixOutcomes ==
    {[read |-> "ok", llm |-> "raises", len |-> 0, write |-> "-"]}
    \cup {[read |-> "ok", llm |-> "ok", len |-> n, write |-> "-"] :
            n \in {m \in FixLens : m < 10}}
    \cup {[read |-> "ok", llm |-> "ok", len |-> n, write |-> "ok"] :
            n \in {m \in FixLens : m >= 10}}
    \cup {[read |-> "ok", llm |-> "ok", len |-> 50, write |-> "fail"]}
    \cup {[read |-> "error", llm |-> "ok", len |-> 50, write |-> "ok"]}

\* variant: the partition promotes every failed review
promote_every_review(reviews) ==
    [i \in 1..Len(reviews) |-> [reviews[i] EXCEPT !.passed = TRUE]]

\* fixer.py:77-85: the reviews after the partition (a failed review without
\* issues is promoted to passed in place)
promote_no_issues(reviews) ==
    [i \in 1..Len(reviews) |->
        IF ~reviews[i].passed /\ reviews[i].issues = 0
        THEN [reviews[i] EXCEPT !.passed = TRUE] ELSE reviews[i]]

\* variant: every review is a candidate, passed or not
RECURSIVE files_to_fix_all(_, _)
files_to_fix_all(reviews, i) ==
    IF i > Len(reviews) THEN <<>>
    ELSE <<reviews[i].filepath>> \o files_to_fix_all(reviews, i + 1)

\* fixer.py:74-85: the filepaths of the reviews in files_to_fix, in order
RECURSIVE files_to_fix(_, _)
files_to_fix(reviews, i) ==
    IF i > Len(reviews) THEN <<>>
    ELSE IF ~reviews[i].passed /\ reviews[i].issues > 0
    THEN <<reviews[i].filepath>> \o files_to_fix(reviews, i + 1)
    ELSE files_to_fix(reviews, i + 1)

\* variant: a fixed body is written whatever its length is against the original's
fix_file_any_ratio(acc, filepath, out) ==
    LET unreadable == out.read = "error" \/ acc.disk[filepath] = 0
        noted == IF unreadable
                 THEN Append(acc.failed_fixes, filepath)
                 ELSE acc.failed_fixes
        read_ == [acc EXCEPT !.failed_fixes = noted, !.reads = @ \cup {filepath}]
        asked == [read_ EXCEPT !.requests = @ \cup {filepath}]
    IN IF out.llm = "raises"
       THEN [asked EXCEPT !.failed_fixes = Append(@, filepath)]
       ELSE IF out.len < 10
       THEN [asked EXCEPT !.failed_fixes = Append(@, filepath)]
       ELSE IF out.write \in {"ok", "-"}
       THEN [asked EXCEPT !.disk = [@ EXCEPT ![filepath] = out.len],
                          !.fixed_files = Append(@, filepath)]
       ELSE [asked EXCEPT !.failed_fixes = Append(@, filepath)]

\* fixer.py:147-262: one candidate; acc = [disk, fixed_files, failed_fixes, reads, requests]
\* (failed_fixes holds the filepath of each (filepath, reason) pair)
fix_file(acc, filepath, out) ==
    LET unreadable == out.read = "error" \/ acc.disk[filepath] = 0
        original_length == IF out.read = "error" THEN ErrorTextLen ELSE acc.disk[filepath]
        noted == IF unreadable
                 THEN Append(acc.failed_fixes, filepath)
                 ELSE acc.failed_fixes
        read_ == [acc EXCEPT !.failed_fixes = noted, !.reads = @ \cup {filepath}]
        asked == [read_ EXCEPT !.requests = @ \cup {filepath}]
    IN IF out.llm = "raises"
       THEN [asked EXCEPT !.failed_fixes = Append(@, filepath)]
       ELSE IF out.len < 10
       THEN [asked EXCEPT !.failed_fixes = Append(@, filepath)]
       ELSE IF 10 * out.len < 3 * original_length
       THEN [asked EXCEPT !.failed_fixes = Append(@, filepath)]
       ELSE IF out.write = "ok"
       THEN [asked EXCEPT !.disk = [@ EXCEPT ![filepath] = out.len],
                          !.fixed_files = Append(@, filepath)]
       ELSE [asked EXCEPT !.failed_fixes = Append(@, filepath)]

RECURSIVE fix_loop(_, _, _, _)
fix_loop(todo, outs, i, acc) ==
    IF i > Len(todo) THEN acc
    ELSE fix_loop(todo, outs, i + 1, fix_file(acc, todo[i], outs[i]))

\* [state |-> the returned dict, disk, fixed_files, failed_fixes, reads, requests]
fixer_return(s, d, outs) ==
    LET review_state == s.review_state
        base == [EmptyState EXCEPT !.user_prompt = s.user_prompt, !.plan = s.plan,
                                   !.task_plan = s.task_plan,
                                   !.coder_state = s.coder_state,
                                   !.review_state = review_state,
                                   !.current_phase = "fixing", !.status = "fixed"]
        start == [disk |-> d, fixed_files |-> <<>>, failed_fixes |-> <<>>,
                  reads |-> {}, requests |-> {}]
    IN IF review_state = None
       THEN [state |-> base] @@ start
       ELSE LET todo == files_to_fix(review_state.reviews, 1)
                done == fix_loop(todo, outs, 1, start)
            IN [state |-> [base EXCEPT !.review_state.reviews = promote_no_issues(@)]]
               @@ done

\* the files a Fixer invocation tries to repair
fixer_candidates(s) ==
    IF s.review_state = None THEN <<>> ELSE files_to_fix(s.review_state.reviews, 1)

----------------------------------------------------------------------------
(* TestGenerator, TestRunner, Finalizer *)

\* get_all_project_files() is non-empty
project_has_files(d) == \E p \in AllPaths : d[p] > 0

ProjectTypes == {"web", "python", "unknown"}

\* detect_project_type: the Plan's techstack (the LLM's text) decides when it names
\* a web or a python stack, the extensions of the files on disk otherwise
by_extension(d) ==
    IF \E p \in AllPaths : d[p] > 0 /\ Ext(p) \in {".html", ".css", ".js"}
    THEN "web"
    ELSE IF \E p \in AllPaths : d[p] > 0 /\ Ext(p) = ".py"
    THEN "python" ELSE "unknown"

project_types(s, d) ==
    IF s.plan # None THEN {"web", "python", by_extension(d)} ELSE {by_extension(d)}

TestRunState(test_plan, results) ==
    [test_plan |-> test_plan, results |-> results,
     all_passed |-> \A i \in 1..Len(results) : results[i],
     total_tests |-> Len(results),
     passed_tests |-> Cardinality({i \in 1..Len(results) : results[i]})]

\* out = [type, write]; returns [state, disk]
test_generator_return(s, d, out) ==
    LET base == [EmptyState EXCEPT !.user_prompt = s.user_prompt, !.plan = s.plan,
                                   !.task_plan = s.task_plan,
                                   !.coder_state = s.coder_state,
                                   !.review_state = s.review_state,
                                   !.current_phase = "testing"]
        generated(framework) ==
            [base EXCEPT !.status = "tests_generated",
                         !.test_run_state =
                            [test_plan |-> framework, results |-> <<>>, all_passed |-> TRUE,
                             total_tests |-> 1, passed_tests |-> 1]]
        test_file == IF out.type = "python" THEN TestMain ELSE TestChecklist
        d1 == IF out.write = "ok" THEN [d EXCEPT ![test_file] = 50] ELSE d
    IN IF ~project_has_files(d)
       THEN [state |-> [base EXCEPT !.status = "no_tests_needed",
                                    !.test_run_state = TestRunState(NoStr, <<>>)],
             disk |-> d]
       ELSE [state |-> generated(IF out.type = "python" THEN "pytest" ELSE "manual"),
             disk |-> d1]

TestGeneratorOutcomes ==
    {[type |-> t, write |-> w] : t \in ProjectTypes, w \in {"ok", "fail"}}

\* out = [check, passed, read]
\*  check:  pytest --version said "available" | "unavailable" | the call "raises"
\*  passed: the pytest run reported only passed tests
\*  read:   "ok" | "error" for the checklist file
TestRunnerOutcomes ==
    {[check |-> "available", passed |-> b, read |-> r] :
        b \in BOOLEAN, r \in {"ok", "error"}}
    \cup {[check |-> c, passed |-> TRUE, read |-> "ok"] : c \in {"unavailable", "raises"}}

test_runner_return(s, d, out) ==
    LET test_run_state == s.test_run_state
        test_plan == IF test_run_state = None THEN NoStr ELSE test_run_state.test_plan
        base == [EmptyState EXCEPT !.user_prompt = s.user_prompt, !.plan = s.plan,
                                   !.task_plan = s.task_plan,
                                   !.coder_state = s.coder_state,
                                   !.review_state = s.review_state,
                                   !.current_phase = "testing",
                                   !.status = "tests_complete"]
        file_exists == out.read = "ok" /\ d[TestChecklist] > 0
        results == IF test_plan = "pytest"
                   THEN IF out.check = "available" THEN <<out.passed>> ELSE <<TRUE>>
                   ELSE <<file_exists>>
    IN IF test_plan = NoStr
       THEN [base EXCEPT !.test_run_state = TestRunState(NoStr, <<>>)]
       ELSE [base EXCEPT !.test_run_state = TestRunState(test_plan, results)]

route_after_tests(s) == "finalizer"

\* out = [llm, write]; returns [state, disk]
FinalizerOutcomes ==
    {[llm |-> l, write |-> w] : l \in {"ok", "raises"}, w \in {"ok", "fail"}}

finalizer_return(s, d, out) ==
    LET done(summary) ==
            [EmptyState EXCEPT !.current_phase = "complete", !.status = "DONE",
                               !.final_summary = summary,
                               !.project_path = "generated_project"]
    IN IF s.plan = None
       THEN [state |-> done("Project completed"), disk |-> d]
       ELSE [state |-> done("PROJECT GENERATION COMPLETE"),
             disk |-> IF out.llm = "ok" /\ out.write = "ok"
                      THEN [d EXCEPT ![Readme] = 50] ELSE d]

----------------------------------------------------------------------------
(* The graph engine: agent.invoke({"user_prompt": ...}, {"recursion_limit": ...}) *)

RECURSIVE SumCalls(_, _)
SumCalls(c, S) ==
    IF S = {} THEN 0
    ELSE LET x == CHOOSE y \in S : TRUE IN c[x] + SumCalls(c, S \ {x})

\* stage invocations so far in this run
steps == SumCalls(calls, Stages)

\* no step attempted: what the Coder's tiers did when none of them ran
NoTiers == [tier1 |-> "-", tier2 |-> "-", tier3 |-> "-", path |-> "-", len |-> 0]

IoNone == [reads |-> {}, requests |-> {}, fixed_files |-> <<>>, failed_fixes |-> <<>>,
           structured |-> "-", tiers |-> NoTiers, fixes |-> <<>>, text |-> <<>>,
           outcomes |-> <<>>]

\* variant: a node may run once more after the step budget is used up
Runs_past_budget(n) ==
    /\ node = n
    /\ steps <= recursion_limit
    /\ calls' = [calls EXCEPT ![n] = @ + 1]
    /\ last' = n
    /\ UNCHANGED <<recursion_limit, recovery, tool>>

\* a node runs only while the step budget is not used up
Runs(n) ==
    /\ node = n
    /\ steps < recursion_limit
    /\ calls' = [calls EXCEPT ![n] = @ + 1]
    /\ last' = n
    /\ UNCHANGED <<recursion_limit, recovery, tool>>

----------------------------------------------------------------------------
(* Structured-output recovery: parse_plan_from_error, parse_failed_generation,
   parse_review_from_error.

   A text is a sequence of tokens.  The characters the routines treat
   specially are tokens of their own: "q" the double quote, "bs" the
   backslash, "nl" the newline character, "n" the letter n after a backslash,
   and the JSON punctuation.  "<function=Plan>", "<function=TaskPlan>",
   "<function=CodeReview>" and "</function>" are the markers.  Any other token
   is a run of ordinary characters. *)

OpenMarker(schema) ==
    CASE schema = "Plan" -> "<function=Plan>"
      [] schema = "TaskPlan" -> "<function=TaskPlan>"
      [] schema = "CodeReview" -> "<function=CodeReview>"

CloseMarker == "</function>"

\* the texts of a sequence, one after another
RECURSIVE Concat(_)
Concat(texts) ==
    IF texts = <<>> THEN <<>>
    ELSE IF Len(texts) = 1 THEN texts[1]
    ELSE LET half == Len(texts) \div 2
         IN Concat(SubSeq(texts, 1, half)) \o Concat(SubSeq(texts, half + 1, Len(texts)))

\* str.replace of the two-character text <<"bs", c>> by the character to
\* (c is not the backslash, so no two occurrences overlap)
Replace(text, c, to) ==
    LET found(i) == i >= 1 /\ i < Len(text) /\ text[i] = "bs" /\ text[i + 1] = c
    IN Concat([i \in 1..Len(text) |->
                 IF found(i) THEN <<to>>
                 ELSE IF found(i - 1) THEN <<>>
                 ELSE <<text[i]>>])

\* re.search(r'<function=X>(\{.*?\})</function>', text, re.DOTALL).group(1):
\* the leftmost marker followed by "{" that has a "}" + close marker after it,
\* up to the first such "}"; <<>> when there is no match
SearchGroup(text, schema) ==
    LET closes(i) == {j \in (i + 2)..(Len(text) - 1) :
                        text[j] = "}" /\ text[j + 1] = CloseMarker}
        opens == {i \in 1..(Len(text) - 1) :
                    /\ text[i] = OpenMarker(schema)
                    /\ text[i + 1] = "{"
                    /\ closes(i) # {}}
    IN IF opens = {} THEN <<>>
       ELSE LET i == CHOOSE x \in opens : \A y \in opens : x <= y
                j == CHOOSE x \in closes(i) : \A y \in closes(i) : x <= y
            IN SubSeq(text, i + 1, j)

\* JSON values: [t |-> type, s |-> characters of a string, n |-> number,
\* items |-> elements of a list or the [k, v] members of an object]
JStr(s) == [t |-> "str", s |-> s, n |-> 0, items |-> <<>>]
JNum(n) == [t |-> "num", s |-> <<>>, n |-> n, items |-> <<>>]
JBool(b) == [t |-> "bool", s |-> <<>>, n |-> IF b THEN 1 ELSE 0, items |-> <<>>]
JNull == [t |-> "null", s |-> <<>>, n |-> 0, items |-> <<>>]
JList(items) == [t |-> "list", s |-> <<>>, n |-> 0, items |-> items]
JObj(members) == [t |-> "obj", s |-> <<>>, n |-> 0, items |-> members]
Member(k, v) == [k |-> k, v |-> v]

\* the numerals that occur in the texts
Numerals == {"0", "1", "3", "7", "11"}
NumeralValue(tok) ==
    CASE tok = "0" -> 0 [] tok = "1" -> 1 [] tok = "3" -> 3 [] tok = "7" -> 7
      [] tok = "11" -> 11
NumeralOf(n) ==
    CASE n = 0 -> "0" [] n = 1 -> "1" [] n = 3 -> "3" [] n = 7 -> "7" [] n = 11 -> "11"

\* joining texts with a separator
Join(texts, sep) ==
    Concat([i \in 1..Len(texts) |-> IF i = 1 THEN texts[i] ELSE sep \o texts[i]])

\* json.dumps of a string: quote, backslash and newline are escaped
DumpChars(s) ==
    Concat([i \in 1..Len(s) |->
              CASE s[i] = "q" -> <<"bs", "q">>
                [] s[i] = "bs" -> <<"bs", "bs">>
                [] s[i] = "nl" -> <<"bs", "n">>
                [] OTHER -> <<s[i]>>])

\* json.dumps(value): compact, or with a newline after every "{", "[" and ","
\* and before every "}" and "]" when pretty
RECURSIVE Dumps(_, _)
Dumps(v, pretty) ==
    LET ws == IF pretty THEN <<"nl">> ELSE <<>>
    IN CASE v.t = "str" -> <<"q">> \o DumpChars(v.s) \o <<"q">>
         [] v.t = "num" -> <<NumeralOf(v.n)>>
         [] v.t = "bool" -> <<IF v.n = 1 THEN "true" ELSE "false">>
         [] v.t = "null" -> <<"null">>
         [] v.t = "list" ->
              IF v.items = <<>> THEN <<"[", "]">>
              ELSE <<"[">> \o ws
                   \o Join([i \in 1..Len(v.items) |-> Dumps(v.items[i], pretty)],
                           <<",">> \o ws)
                   \o ws \o <<"]">>
         [] v.t = "obj" ->
              IF v.items = <<>> THEN <<"{", "}">>
              ELSE <<"{">> \o ws
                   \o Join([i \in 1..Len(v.items) |->
                              <<"q">> \o DumpChars(v.items[i].k) \o <<"q", ":">>
                              \o Dumps(v.items[i].v, pretty)],
                           <<",">> \o ws)
                   \o ws \o <<"}">>

\* the text as it stands inside the error message: every quote and every
\* newline of the JSON text is escaped with a backslash
Escaped(text) ==
    Concat([i \in 1..Len(text) |->
              CASE text[i] = "q" -> <<"bs", "q">>
                [] text[i] = "nl" -> <<"bs", "n">>
                [] OTHER -> <<text[i]>>])

\* json.loads: [ok, val, next]; ok = FALSE is json.JSONDecodeError
JFail == [ok |-> FALSE, val |-> JNull, next |-> 0]
JOk(v, next) == [ok |-> TRUE, val |-> v, next |-> next]

\* skip the whitespace from position i on
RECURSIVE SkipWs(_, _)
SkipWs(text, i) ==
    IF i <= Len(text) /\ text[i] = "nl" THEN SkipWs(text, i + 1) ELSE i

\* the characters of a string whose opening quote is before position i
RECURSIVE ScanString(_, _, _)
ScanString(text, i, acc) ==
    IF i > Len(text) THEN JFail
    ELSE IF text[i] = "q" THEN JOk(JStr(acc), i + 1)
    ELSE IF text[i] = "nl" THEN JFail
    ELSE IF text[i] = "bs"
    THEN IF i + 1 > Len(text) THEN JFail
         ELSE IF text[i + 1] = "q" THEN ScanString(text, i + 2, Append(acc, "q"))
         ELSE IF text[i + 1] = "bs" THEN ScanString(text, i + 2, Append(acc, "bs"))
         ELSE IF text[i + 1] = "n" THEN ScanString(text, i + 2, Append(acc, "nl"))
         ELSE IF text[i + 1] = "/" THEN ScanString(text, i + 2, Append(acc, "/"))
         ELSE JFail
    ELSE ScanString(text, i + 1, Append(acc, text[i]))

RECURSIVE ParseValue(_, _)
RECURSIVE ParseMembers(_, _, _)
RECURSIVE ParseElements(_, _, _)

ParseValue(text, i0) ==
    LET i == SkipWs(text, i0)
    IN IF i > Len(text) THEN JFail
       ELSE IF text[i] = "q" THEN ScanString(text, i + 1, <<>>)
       ELSE IF text[i] = "{" THEN ParseMembers(text, i + 1, <<>>)
       ELSE IF text[i] = "[" THEN ParseElements(text, i + 1, <<>>)
       ELSE IF text[i] \in Numerals THEN JOk(JNum(NumeralValue(text[i])), i + 1)
       ELSE IF text[i] = "true" THEN JOk(JBool(TRUE), i + 1)
       ELSE IF text[i] = "false" THEN JOk(JBool(FALSE), i + 1)
       ELSE IF text[i] = "null" THEN JOk(JNull, i + 1)
       ELSE JFail

ParseMembers(text, i0, acc) ==
    LET i == SkipWs(text, i0)
    IN IF i > Len(text) THEN JFail
       ELSE IF acc = <<>> /\ text[i] = "}" THEN JOk(JObj(acc), i + 1)
       ELSE IF text[i] # "q" THEN JFail
       ELSE LET key == ScanString(text, i + 1, <<>>)
                c == SkipWs(text, key.next)
            IN IF ~key.ok \/ c > Len(text) THEN JFail
               ELSE IF text[c] # ":" THEN JFail
               ELSE LET val == ParseValue(text, c + 1)
                        e == SkipWs(text, val.next)
                        members == Append(acc, Member(key.val.s, val.val))
                    IN IF ~val.ok \/ e > Len(text) THEN JFail
                       ELSE IF text[e] = "}" THEN JOk(JObj(members), e + 1)
                       ELSE IF text[e] = "," THEN ParseMembers(text, e + 1, members)
                       ELSE JFail

ParseElements(text, i0, acc) ==
    LET i == SkipWs(text, i0)
    IN IF i > Len(text) THEN JFail
       ELSE IF acc = <<>> /\ text[i] = "]" THEN JOk(JList(acc), i + 1)
       ELSE LET val == ParseValue(text, i)
                e == SkipWs(text, val.next)
                elements == Append(acc, val.val)
            IN IF ~val.ok \/ e > Len(text) THEN JFail
               ELSE IF text[e] = "]" THEN JOk(JList(elements), e + 1)
               ELSE IF text[e] = "," THEN ParseElements(text, e + 1, elements)
               ELSE JFail

\* json.loads(text): the whole text is one value
Loads(text) ==
    LET r == ParseValue(text, 1)
    IN IF r.ok /\ SkipWs(text, r.next) > Len(text) THEN r ELSE JFail

\* dict.get(key, default): the last member with that key
Get(data, key, default) ==
    LET at == {i \in 1..Len(data.items) : data.items[i].k = <<key>>}
    IN IF at = {} THEN default
       ELSE data.items[CHOOSE i \in at : \A j \in at : j <= i].v

\* `for x in value`: [ok, items]; a list gives its elements, a string its
\* characters, a dict its keys, anything else raises TypeError (ok = FALSE)
Iterate(v) ==
    IF v.t = "list" THEN [ok |-> TRUE, items |-> v.items]
    ELSE IF v.t = "str" THEN [ok |-> TRUE, items |-> [i \in 1..Len(v.s) |-> JStr(<<v.s[i]>>)]]
    ELSE IF v.t = "obj"
    THEN [ok |-> TRUE, items |-> [i \in 1..Len(v.items) |-> JStr(v.items[i].k)]]
    ELSE [ok |-> FALSE, items |-> <<>>]

\* what a routine's try body comes to: a value, or an exception
Returned(result) == [raised |-> FALSE, result |-> result]
Raised == [raised |-> TRUE, result |-> None]

\* variant: the exception is handed on to the caller
Guarded_reraises(body) == body

\* try: ... except Exception: print(...); return None
Guarded(body) ==
    IF body.raised THEN Returned(None) ELSE body

\* pydantic's validation of an int field: an int, a bool, or a numeral in a string
IsInt(v) ==
    \/ v.t \in {"num", "bool"}
    \/ v.t = "str" /\ Len(v.s) = 1 /\ v.s[1] \in Numerals
IntOf(v) == IF v.t = "str" THEN NumeralValue(v.s[1]) ELSE v.n

\* pydantic's validation of a bool field: a bool, 0 or 1, or "true"/"false" in a string
IsBool(v) ==
    \/ v.t = "bool"
    \/ v.t = "num" /\ v.n \in {0, 1}
    \/ v.t = "str" /\ Len(v.s) = 1 /\ v.s[1] \in {"true", "false"}
BoolOf(v) == IF v.t = "str" THEN v.s[1] = "true" ELSE v.n = 1

\* planner.py:13-43.  Of the Plan the model keeps name, description and the
\* files with path and purpose; techstack, features, architecture_notes and
\* dependencies are read with the same get-with-default.
parse_plan_from_error(error_message) ==
    LET group == SearchGroup(error_message, "Plan")
        json_str == Replace(group, "q", "q")
        loaded == Loads(json_str)
        data == loaded.val
        files == Iterate(Get(data, "files", JList(<<>>)))
        path(f) == Get(f, "path", JStr(<<>>))
        purpose(f) == Get(f, "purpose", JStr(<<>>))
        name == Get(data, "name", JStr(<<"Project">>))
        description == Get(data, "description", JStr(<<>>))
        body ==
            IF group = <<>> THEN Returned(None)
            ELSE IF ~loaded.ok THEN Raised
            ELSE IF ~files.ok THEN Raised
            ELSE IF \E i \in 1..Len(files.items) :
                        \/ files.items[i].t # "obj"
                        \/ path(files.items[i]).t # "str"
                        \/ purpose(files.items[i]).t # "str"
            THEN Raised
            ELSE IF name.t # "str" \/ description.t # "str" THEN Raised
            ELSE Returned([name |-> name.s, description |-> description.s,
                           files |-> [i \in 1..Len(files.items) |->
                                        [path |-> path(files.items[i]).s,
                                         purpose |-> purpose(files.items[i]).s]]])
    IN Guarded(body)

\* architect.py:13-45.  Of an ImplementationTask the model keeps filepath,
\* task_description and priority.
parse_failed_generation(error_message) ==
    LET group == SearchGroup(error_message, "TaskPlan")
        json_str == Replace(Replace(Replace(Replace(group, "q", "q"), "n", "nl"),
                                    "<", "<"), "/", "/")
        loaded == Loads(json_str)
        data == loaded.val
        steps_ == Iterate(Get(data, "implementation_steps", JList(<<>>)))
        filepath(d) == Get(d, "filepath", JStr(<<>>))
        task_description(d) == Get(d, "task_description", JStr(<<>>))
        priority(d) == Get(d, "priority", JNum(0))
        body ==
            IF group = <<>> THEN Returned(None)
            ELSE IF ~loaded.ok THEN Raised
            ELSE IF ~steps_.ok THEN Raised
            ELSE IF \E i \in 1..Len(steps_.items) :
                        \/ steps_.items[i].t # "obj"
                        \/ filepath(steps_.items[i]).t # "str"
                        \/ task_description(steps_.items[i]).t # "str"
                        \/ ~IsInt(priority(steps_.items[i]))
            THEN Raised
            ELSE Returned([implementation_steps |->
                              [i \in 1..Len(steps_.items) |->
                                 [filepath |-> filepath(steps_.items[i]).s,
                                  task_description |-> task_description(steps_.items[i]).s,
                                  priority |-> IntOf(priority(steps_.items[i]))]],
                           total_estimated_tokens |-> 0])
    IN Guarded(body)

\* the values of ReviewSeverity (states.py:30-37)
ReviewSeverity == {"critical", "high", "medium", "low", "pass"}

\* str.lower() on the severity texts that occur
Lower(s) == [i \in 1..Len(s) |-> IF s[i] = "HIGH" THEN "high" ELSE s[i]]

\* CodeIssue.line_number when none is given (states.py:132-134: None)
NoLineNumber == 0

\* reviewer.py:21-53.  Of a CodeIssue the model keeps description, severity
\* and line_number, of a CodeReview filepath, passed, overall_quality, issues.
parse_review_from_error(error_str, filepath) ==
    LET group == SearchGroup(error_str, "CodeReview")
        json_str == Replace(group, "q", "q")
        loaded == Loads(json_str)
        data == loaded.val
        issues == Iterate(Get(data, "issues", JList(<<>>)))
        severity_str(d) == Get(d, "severity", JStr(<<"medium">>))
        severity(d) == IF Len(severity_str(d).s) = 1
                          /\ Lower(severity_str(d).s)[1] \in ReviewSeverity
                       THEN Lower(severity_str(d).s)[1] ELSE "medium"
        description(d) == Get(d, "description", JStr(<<>>))
        passed == Get(data, "passed", JBool(TRUE))
        overall_quality == Get(data, "overall_quality", JNum(7))
        body ==
            IF group = <<>> THEN Returned(None)
            ELSE IF ~loaded.ok THEN Raised
            ELSE IF ~issues.ok THEN Raised
            ELSE IF \E i \in 1..Len(issues.items) :
                        \/ issues.items[i].t # "obj"
                        \/ severity_str(issues.items[i]).t # "str"
                        \/ description(issues.items[i]).t # "str"
            THEN Raised
            ELSE IF ~IsBool(passed) THEN Raised
            ELSE IF ~IsInt(overall_quality) THEN Raised
            ELSE IF IntOf(overall_quality) < 0 \/ IntOf(overall_quality) > 10 THEN Raised
            ELSE Returned([filepath |-> filepath,
                           issues |-> [i \in 1..Len(issues.items) |->
                                         [description |-> description(issues.items[i]).s,
                                          severity |-> severity(issues.items[i]),
                                          line_number |-> NoLineNumber]],
                           passed |-> BoolOf(passed),
                           overall_quality |-> IntOf(overall_quality)])
    IN Guarded(body)

\* the recovery call under study: the routine's schema, the error text and
\* how it was made, the record the text embeds (None when it embeds none), the
\* filepath argument of the review routine, and what the call came to
NoRecovery ==
    [schema |-> "-", kind |-> "-", text |-> <<>>, filepath |-> <<>>, record |-> None,
     done |-> FALSE, raised |-> FALSE, result |-> None]

-----------------------------------------------------------------------------
(* The file tools (tools.py): safe_path_for_project, write_file, read_file,
   list_files.  A location is the sequence of directory names from the
   filesystem root; a path argument is [absolute, parts]. *)

\* tools.py:16-18: PROJECT_ROOT = pathlib.Path(os.getenv(...)).resolve()
PROJECT_ROOT == <<"work", "generated_project">>

\* pathlib.Path(path).name: the last component ("" of a path without one)
name(path) ==
    IF path.parts = <<>> THEN <<>> ELSE <<path.parts[Len(path.parts)]>>

\* Path.resolve(): ".." leaves the directory (the filesystem root is its own
\* parent), any other component enters it
RECURSIVE resolve(_, _)
resolve(loc, parts) ==
    IF parts = <<>> THEN loc
    ELSE resolve(IF parts[1] = ".."
                     THEN (IF loc = <<>> THEN loc ELSE Front(loc))
                     ELSE Append(loc, parts[1]),
                 Tail(parts))

\* p.relative_to(root) does not raise
relative_to(p, root) ==
    /\ Len(p) >= Len(root)
    /\ SubSeq(p, 1, Len(root)) = root

\* variant: the resolved location is returned without the relative_to check
safe_path_for_project_unchecked(path) ==
    Returned(resolve(PROJECT_ROOT, IF path.absolute THEN name(path) ELSE path.parts))

\* tools.py:26-43: an absolute path is cut down to its name, the path is
\* joined to the root and resolved, and a location outside the root raises
\* ValueError
safe_path_for_project(path) ==
    LET p == resolve(PROJECT_ROOT, IF path.absolute THEN name(path) ELSE path.parts)
    IN  IF relative_to(p, PROJECT_ROOT) THEN Returned(p) ELSE Raised

\* the directories p.parent.mkdir(parents=True, exist_ok=True) may create:
\* those between the root (which exists, tools.py:46-49) and p
parents(p) ==
    {SubSeq(p, 1, k) : k \in (Len(PROJECT_ROOT) + 1)..(Len(p) - 1)}

\* tools.py:52-74: write_file; os is what open() and write() come to
write_file(path, os) ==
    LET sp == safe_path_for_project(path)
    IN  IF sp.raised THEN [result |-> "ERROR", touched |-> {}]
        ELSE IF sp.result = PROJECT_ROOT \/ os = "error"
            THEN [result |-> "ERROR", touched |-> parents(sp.result)]
            ELSE [result |-> "SUCCESS", touched |-> parents(sp.result) \cup {sp.result}]

\* tools.py:77-97: read_file; "" for a file that does not exist (the root
\* itself exists, tools.py:46-49)
read_file(path, os) ==
    LET sp == safe_path_for_project(path)
    IN  IF sp.raised THEN [result |-> "ERROR", touched |-> {}]
        ELSE IF os = "absent" /\ sp.result # PROJECT_ROOT THEN [result |-> "", touched |-> {}]
        ELSE IF sp.result = PROJECT_ROOT THEN [result |-> "ERROR", touched |-> {}]
        ELSE IF os = "error" THEN [result |-> "ERROR", touched |-> {sp.result}]
        ELSE [result |-> "CONTENT", touched |-> {sp.result}]

\* tools.py:110-140: list_files; the files under the directory are named
list_files(directory, os) ==
    LET sp == safe_path_for_project(directory)
    IN  IF sp.raised THEN [result |-> "ERROR", touched |-> {}]
        ELSE IF os = "absent" /\ sp.result # PROJECT_ROOT
            THEN [result |-> "Directory does not exist", touched |-> {}]
        ELSE IF os = "error" THEN [result |-> "ERROR", touched |-> {sp.result}]
        ELSE [result |-> "FILES", touched |-> {sp.result}]

\* no tool call under study
NoTool ==
    [op |-> "-", path |-> [absolute |-> FALSE, parts |-> <<>>], os |-> "-",
     done |-> FALSE, result |-> "-", touched |-> {}]

----------------------------------------------------------------------------
(* The graph *)

UserPrompts == {"", "build a todo app"}

Init ==
    /\ node = "planner"
    /\ \E p \in UserPrompts : state = [EmptyState EXCEPT !.user_prompt = p]
    /\ disk = [p \in AllPaths |-> 0]
    /\ recursion_limit \in {SmallRecursionLimit, DefaultRecursionLimit}
    /\ calls = [n \in Stages |-> 0]
    /\ last = "none"
    /\ io = IoNone
    /\ recovery = NoRecovery
    /\ tool = NoTool

planner_agent ==
    /\ Runs("planner")
    /\ \E out \in PlannerOutcomes :
        /\ state' = planner_return(state, out)
        /\ io' = [IoNone EXCEPT !.structured =
                     IF state.user_prompt \in {"", NoStr} THEN "-" ELSE out.kind]
    /\ node' = "architect"
    /\ UNCHANGED disk

architect_agent ==
    /\ Runs("architect")
    /\ \E out \in ArchitectOutcomes :
        /\ state' = architect_return(state, out)
        /\ io' = [IoNone EXCEPT !.structured = IF state.plan = None THEN "-" ELSE out.kind]
    /\ node' = "coder"
    /\ UNCHANGED disk

coder_agent ==
    /\ Runs("coder")
    /\ \E out \in CoderOutcomes :
        /\ state' = coder_return(state, out)
        /\ disk' = IF coder_attempts(state)
                   THEN coder_disk(disk, current_task(state), out)
                   ELSE disk
        /\ io' = [IoNone EXCEPT !.tiers = IF coder_attempts(state) THEN out ELSE NoTiers]
    /\ node' = route_after_coder(state')

reviewer_agent ==
    /\ Runs("reviewer")
    /\ \E outs \in Product(review_choices(state, disk)) :
        LET r == reviewer_return(state, disk, outs)
        IN /\ state' = r.state
           /\ io' = [IoNone EXCEPT !.reads = r.reads, !.requests = r.requests]
    /\ node' = route_after_review(state')
    /\ UNCHANGED disk

\* the Fixer node without the record of what it did at its boundaries
fixer_step(outs) ==
    LET r == fixer_return(state, disk, outs)
    IN /\ Runs("fixer")
       /\ state' = r.state
       /\ disk' = r.disk
       /\ node' = "reviewer"

\* what a Fixer invocation did at its boundaries
fixer_io(outs) ==
    LET r == fixer_return(state, disk, outs)
    IN [IoNone EXCEPT !.reads = r.reads, !.requests = r.requests,
                      !.fixed_files = r.fixed_files,
                      !.failed_fixes = r.failed_fixes]

fixer_agent ==
    \E outs \in Product([i \in 1..Len(fixer_candidates(state)) |-> FixOutcomes]) :
        /\ fixer_step(outs)
        /\ io' = fixer_io(outs)

test_generator_agent ==
    /\ Runs("test_generator")
    /\ \E out \in TestGeneratorOutcomes :
        /\ out.type \in project_types(state, disk)
        /\ LET r == test_generator_return(state, disk, out)
           IN state' = r.state /\ disk' = r.disk
    /\ node' = "test_runner"
    /\ io' = IoNone

test_runner_agent ==
    /\ Runs("test_runner")
    /\ \E out \in TestRunnerOutcomes : state' = test_runner_return(state, disk, out)
    /\ node' = route_after_tests(state')
    /\ io' = IoNone
    /\ UNCHANGED disk

finalizer_agent ==
    /\ Runs("finalizer")
    /\ \E out \in FinalizerOutcomes :
        LET r == finalizer_return(state, disk, out)
        IN state' = r.state /\ disk' = r.disk
    /\ node' = "END"
    /\ io' = IoNone

\* the step budget is used up before the graph reached END: agent.invoke raises
GraphRecursionError ==
    /\ node \in Stages
    /\ steps >= recursion_limit
    /\ node' = "ERROR"
    /\ UNCHANGED <<state, disk, recursion_limit, calls, last, io, recovery, tool>>

\* what agent.invoke hands to its caller: the final state dict at END, nothing
\* while the graph runs, and nothing when it raised (main.py:151, api.py:86-87)
invoke_result ==
    IF node = "END" THEN state ELSE None

\* the caller's view of the run (main.py:129-160, api.py:78-87)
caller_outcome ==
    IF node = "ERROR" THEN "error"
    ELSE IF node = "END" THEN invoke_result.status
    ELSE "running"

Next ==
    \/ planner_agent
    \/ architect_agent
    \/ coder_agent
    \/ reviewer_agent
    \/ fixer_agent
    \/ test_generator_agent
    \/ test_runner_agent
    \/ finalizer_agent
    \/ GraphRecursionError

Spec == Init /\ [][Next]_vars

\* the engine runs the next node as soon as the previous one returned, and every
\* external call returns
FairSpec == Spec /\ WF_vars(Next)

----------------------------------------------------------------------------
(* One Reviewer pass over any prior state: reviewer_agent called with a state
   dict that holds a TaskPlan and a ReviewState of any iteration counter *)

PriorTaskPlans ==
    {[implementation_steps |-> SortByPriority(t)] : t \in LlmSteps \ {<<>>}}

\* one earlier review per step: passed, or failed with one issue, under the
\* step's filepath or under the one a structured review carried (reviewer.py:215)
PriorReviews(task_plan) ==
    LET steps_ == task_plan.implementation_steps
    IN Product([i \in 1..Len(steps_) |->
                  {CodeReview(p, TRUE, 0) : p \in Paths}
                  \cup {CodeReview(p, FALSE, 1) : p \in Paths}])

PriorStates ==
    UNION {
      {[EmptyState EXCEPT !.user_prompt = "build a todo app",
                          !.plan = CHOOSE p \in Plans : TRUE,
                          !.task_plan = tp,
                          !.coder_state = IF c THEN AssumedCoderState(tp) ELSE None,
                          !.review_state = [reviews |-> rs, iteration |-> it,
                                            max_iterations |-> mx,
                                            all_passed |-> \A i \in 1..Len(rs) : rs[i].passed],
                          !.current_phase = "fixing", !.status = "fixed"] :
          rs \in PriorReviews(tp),
          c \in BOOLEAN,
          it \in 0..MaxPriorIteration,
          mx \in {ReviewStateMaxIterations, DefaultMaxIterations}} :
      tp \in PriorTaskPlans}

ReviewerInit ==
    /\ node = "reviewer"
    /\ state \in PriorStates
    /\ \E a, b \in PriorLens :
          disk = [p \in AllPaths |-> IF p = "index.html" THEN a
                                     ELSE IF p = "script.js" THEN b ELSE 0]
    /\ recursion_limit = DefaultRecursionLimit
    /\ calls = [n \in Stages |-> 0]
    /\ last = "none"
    /\ io = IoNone
    /\ recovery = NoRecovery
    /\ tool = NoTool

ReviewerNext == reviewer_agent

ReviewerSpec == ReviewerInit /\ [][ReviewerNext]_vars

\* the Reviewer node with the outcome of every step kept in io.outcomes
reviewer_traced ==
    /\ Runs("reviewer")
    /\ \E outs \in Product(review_choices(state, disk)) :
        LET r == reviewer_return(state, disk, outs)
        IN /\ state' = r.state
           /\ io' = [IoNone EXCEPT !.reads = r.reads, !.requests = r.requests,
                                   !.outcomes = outs]
    /\ node' = route_after_review(state')
    /\ UNCHANGED disk

ReviewTraceNext == reviewer_traced

ReviewTraceSpec == ReviewerInit /\ [][ReviewTraceNext]_vars

----------------------------------------------------------------------------
(* One Fixer pass over any prior state: fixer_agent called with the state dict
   a Reviewer pass returned, the outcome of every candidate kept in io.fixes *)

FixerPriorStates ==
    UNION {
      {[EmptyState EXCEPT !.user_prompt = "build a todo app",
                          !.plan = CHOOSE p \in Plans : TRUE,
                          !.task_plan = tp,
                          !.coder_state = AssumedCoderState(tp),
                          !.review_state = [reviews |-> rs, iteration |-> 0,
                                            max_iterations |-> DefaultMaxIterations,
                                            all_passed |-> \A i \in 1..Len(rs) : rs[i].passed],
                          !.current_phase = "reviewing", !.status = "reviewed"] :
          rs \in PriorReviews(tp)} :
      tp \in PriorTaskPlans}

FixerInit ==
    /\ node = "fixer"
    /\ state \in FixerPriorStates
    /\ \E a, b \in PriorLens :
          disk = [p \in AllPaths |-> IF p = "index.html" THEN a
                                     ELSE IF p = "script.js" THEN b ELSE 0]
    /\ recursion_limit = DefaultRecursionLimit
    /\ calls = [n \in Stages |-> 0]
    /\ last = "none"
    /\ io = IoNone
    /\ recovery = NoRecovery
    /\ tool = NoTool

fixer_traced ==
    \E outs \in Product([i \in 1..Len(fixer_candidates(state)) |-> FixOutcomes]) :
        /\ fixer_step(outs)
        /\ io' = [fixer_io(outs) EXCEPT !.fixes = outs]

FixerNext == fixer_traced

FixerSpec == FixerInit /\ [][FixerNext]_vars

----------------------------------------------------------------------------
(* One recovery call over any error text: a text that embeds a valid record
   of the schema with its quotes and newlines escaped, a text without a
   complete marker pair, a text whose JSON is malformed, and a text whose
   field values the schema rejects *)

\* string values: plain, with a newline, with quotes
Strings == {<<"app">>, <<"line1", "nl", "line2">>, <<"say", "q", "hi", "q">>}

PlanRecords ==
    {[name |-> <<"Todo">>, description |-> d, files |-> f] :
        d \in Strings,
        f \in {<<>>,
               <<[path |-> <<"index.html">>, purpose |-> <<"markup">>]>>,
               <<[path |-> <<"index.html">>, purpose |-> <<"markup">>],
                 [path |-> <<"script.js">>, purpose |-> <<"line1", "nl", "line2">>]>>}}

TaskPlanRecords ==
    {[implementation_steps |-> s, total_estimated_tokens |-> t] :
        s \in {<<>>}
              \cup {<<[filepath |-> <<"index.html">>, task_description |-> d,
                       priority |-> 1]>> : d \in Strings}
              \cup {<<[filepath |-> <<"index.html">>, task_description |-> <<"markup">>,
                       priority |-> 1],
                      [filepath |-> <<"script.js">>, task_description |-> <<"logic">>,
                       priority |-> 3]>>},
        t \in {0, 7}}

ReviewRecords ==
    {[filepath |-> f, issues |-> i, passed |-> p, overall_quality |-> 7] :
        f \in {<<"index.html">>, <<"script.js">>},
        p \in BOOLEAN,
        i \in {<<>>,
               <<[description |-> <<"bug">>, severity |-> "high",
                  line_number |-> NoLineNumber]>>,
               <<[description |-> <<"bug">>, severity |-> "high", line_number |-> 3]>>}}

\* the JSON object of a record
PlanJson(r) ==
    JObj(<<Member(<<"name">>, JStr(r.name)),
           Member(<<"description">>, JStr(r.description)),
           Member(<<"files">>,
                  JList([i \in 1..Len(r.files) |->
                           JObj(<<Member(<<"path">>, JStr(r.files[i].path)),
                                  Member(<<"purpose">>, JStr(r.files[i].purpose))>>)]))>>)

TaskPlanJson(r) ==
    JObj(<<Member(<<"implementation_steps">>,
                  JList([i \in 1..Len(r.implementation_steps) |->
                           LET s == r.implementation_steps[i]
                           IN JObj(<<Member(<<"filepath">>, JStr(s.filepath)),
                                     Member(<<"task_description">>, JStr(s.task_description)),
                                     Member(<<"priority">>, JNum(s.priority))>>)])),
           Member(<<"total_estimated_tokens">>, JNum(r.total_estimated_tokens))>>)

ReviewJson(r) ==
    JObj(<<Member(<<"filepath">>, JStr(r.filepath)),
           Member(<<"issues">>,
                  JList([i \in 1..Len(r.issues) |->
                           LET s == r.issues[i]
                           IN JObj(<<Member(<<"line_number">>,
                                            IF s.line_number = NoLineNumber THEN JNull
                                            ELSE JNum(s.line_number)),
                                     Member(<<"description">>, JStr(s.description)),
                                     Member(<<"severity">>, JStr(<<s.severity>>))>>)])),
           Member(<<"passed">>, JBool(r.passed)),
           Member(<<"overall_quality">>, JNum(r.overall_quality))>>)

\* str(error) of a failed structured request that carries the JSON text
ErrorText(schema, json, pretty) ==
    <<"failed_generation">> \o <<OpenMarker(schema)>> \o Escaped(Dumps(json, pretty))
    \o <<CloseMarker>>

Call(schema, kind, text, filepath, record) ==
    [NoRecovery EXCEPT !.schema = schema, !.kind = kind, !.text = text,
                       !.filepath = filepath, !.record = record]

ValidCalls ==
    {Call("Plan", "valid", ErrorText("Plan", PlanJson(r), pretty), <<>>, r) :
        r \in PlanRecords, pretty \in BOOLEAN}
    \cup {Call("TaskPlan", "valid", ErrorText("TaskPlan", TaskPlanJson(r), pretty), <<>>, r) :
            r \in TaskPlanRecords, pretty \in BOOLEAN}
    \cup {Call("CodeReview", "valid", ErrorText("CodeReview", ReviewJson(r), pretty),
               f, r) :
            r \in ReviewRecords, pretty \in BOOLEAN,
            f \in {<<"index.html">>, <<"script.js">>}}

Schemas == {"Plan", "TaskPlan", "CodeReview"}

\* texts without a complete marker pair
NoMarkerTexts(schema) ==
    {<<"rate", "limit", "reached">>,
     <<"failed_generation">> \o Escaped(Dumps(JObj(<<>>), FALSE)),
     <<"failed_generation", OpenMarker(schema), "{", "bs", "q", "name", "bs", "q", ":">>,
     <<"failed_generation", "<function=Other>", "{", "}", CloseMarker>>}

\* texts whose JSON does not parse: a trailing comma, an unterminated string,
\* a bare word, a second "{"
MalformedTexts(schema) ==
    {<<"failed_generation", OpenMarker(schema)>> \o t \o <<CloseMarker>> :
        t \in {<<"{", "bs", "q", "name", "bs", "q", ":", "1", ",", "}">>,
               <<"{", "bs", "q", "name", ":", "1", "}">>,
               <<"{", "name", "}">>,
               <<"{", "{", "}">>}}

\* a text whose string value holds an escaped angle bracket and an escaped slash
EscapedAngleText(schema) ==
    <<"failed_generation", OpenMarker(schema), "{", "bs", "q", "name", "bs", "q", ":",
      "bs", "q", "bs", "<", "b", "bs", "/", "bs", "q", "}", CloseMarker>>

\* JSON objects with a field value the schema rejects
InvalidJson(schema) ==
    CASE schema = "Plan" ->
           {JObj(<<Member(<<"name">>, JNum(3))>>),
            JObj(<<Member(<<"files">>, JList(<<JStr(<<"index.html">>)>>))>>),
            JObj(<<Member(<<"files">>, JNum(1))>>),
            JObj(<<Member(<<"files">>, JList(<<JObj(<<Member(<<"path">>, JNull)>>)>>))>>)}
      [] schema = "TaskPlan" ->
           {JObj(<<Member(<<"implementation_steps">>,
                          JList(<<JObj(<<Member(<<"priority">>, JStr(<<"high">>))>>)>>))>>),
            JObj(<<Member(<<"implementation_steps">>, JStr(<<"index.html">>))>>),
            JObj(<<Member(<<"implementation_steps">>, JNull)>>),
            JObj(<<Member(<<"implementation_steps">>,
                          JList(<<JObj(<<Member(<<"filepath">>, JNum(1))>>)>>))>>)}
      [] schema = "CodeReview" ->
           {JObj(<<Member(<<"overall_quality">>, JNum(11))>>),
            JObj(<<Member(<<"passed">>, JStr(<<"maybe">>))>>),
            JObj(<<Member(<<"issues">>,
                          JList(<<JObj(<<Member(<<"severity">>, JNum(3))>>)>>))>>),
            JObj(<<Member(<<"issues">>, JList(<<JNum(1)>>))>>)}

\* a review whose issue has a severity that ReviewSeverity does not have
UnknownSeverityJson ==
    JObj(<<Member(<<"passed">>, JBool(FALSE)),
           Member(<<"issues">>,
                  JList(<<JObj(<<Member(<<"description">>, JStr(<<"bug">>)),
                                 Member(<<"severity">>, JStr(<<"blocker">>))>>)>>))>>)

InvalidCalls ==
    {Call(s, "no_marker", t, <<"index.html">>, None) :
        s \in Schemas, t \in UNION {NoMarkerTexts(x) : x \in Schemas}}
    \cup UNION {{Call(s, "malformed", t, <<"index.html">>, None) : t \in MalformedTexts(s)} :
                  s \in Schemas}
    \cup UNION {{Call(s, "invalid_field", ErrorText(s, j, pretty), <<"index.html">>, None) :
                    j \in InvalidJson(s), pretty \in {FALSE}} : s \in Schemas}
    \cup {Call(s, "escaped_angle", EscapedAngleText(s), <<"index.html">>, None) :
            s \in Schemas}
    \cup {Call("CodeReview", "unknown_severity",
               ErrorText("CodeReview", UnknownSeverityJson, FALSE), <<"index.html">>, None)}

RecoveryInit ==
    /\ node = "planner"
    /\ state = [EmptyState EXCEPT !.user_prompt = "build a todo app"]
    /\ disk = [p \in AllPaths |-> 0]
    /\ recursion_limit = DefaultRecursionLimit
    /\ calls = [n \in Stages |-> 0]
    /\ last = "none"
    /\ io = IoNone
    /\ recovery \in ValidCalls \cup InvalidCalls
    /\ tool = NoTool

\* what a recovery call leaves behind
recovered(outcome) ==
    [recovery EXCEPT !.done = TRUE, !.raised = outcome.raised, !.result = outcome.result]

\* planner.py:74: plan = parse_plan_from_error(error_str)
planner_recovers ==
    /\ recovery.schema = "Plan"
    /\ ~recovery.done
    /\ recovery' = recovered(parse_plan_from_error(recovery.text))
    /\ UNCHANGED <<node, state, disk, recursion_limit, calls, last, io, tool>>

\* architect.py:118: task_plan = parse_failed_generation(error_str)
architect_recovers ==
    /\ recovery.schema = "TaskPlan"
    /\ ~recovery.done
    /\ recovery' = recovered(parse_failed_generation(recovery.text))
    /\ UNCHANGED <<node, state, disk, recursion_limit, calls, last, io, tool>>

\* reviewer.py:217: review = parse_review_from_error(error_str, filepath)
reviewer_recovers ==
    /\ recovery.schema = "CodeReview"
    /\ ~recovery.done
    /\ recovery' = recovered(parse_review_from_error(recovery.text, recovery.filepath))
    /\ UNCHANGED <<node, state, disk, recursion_limit, calls, last, io, tool>>

RecoveryNext ==
    \/ planner_recovers
    \/ architect_recovers
    \/ reviewer_recovers

RecoverySpec == RecoveryInit /\ [][RecoveryNext]_vars

----------------------------------------------------------------------------
(* The Architect and the Coder over any Plan: architect_agent called with a
   state dict that holds a Plan of up to MaxPlanFiles files, or none *)

PlanFiles == {"index.html", "style.css", "script.js", "data.json", "Makefile"}

ArchitectPlans ==
    {[files |-> f] : f \in {g \in UNION {[1..n -> PlanFiles] : n \in 0..MaxPlanFiles} :
                                \A i, j \in DOMAIN g : g[i] = g[j] => i = j}}

ArchitectInit ==
    /\ node = "architect"
    /\ \/ \E plan \in ArchitectPlans :
             state = [EmptyState EXCEPT !.user_prompt = "build a todo app", !.plan = plan,
                                        !.current_phase = "planning", !.status = "planned"]
       \/ state = FailedState(EmptyState, "Failed to create project plan")
    /\ disk = [p \in AllPaths \cup PlanFiles |-> 0]
    /\ recursion_limit = DefaultRecursionLimit
    /\ calls = [n \in Stages |-> 0]
    /\ last = "none"
    /\ io = IoNone
    /\ recovery = NoRecovery
    /\ tool = NoTool

ArchitectNext ==
    \/ architect_agent
    \/ coder_agent

ArchitectSpec == ArchitectInit /\ [][ArchitectNext]_vars

-----------------------------------------------------------------------------
(* One call of a file tool with any path argument of up to MaxPathParts
   components *)

MaxPathParts == 3

PathParts == {"..", "generated_project", "css", "index.html"}

PathArguments ==
    [absolute : BOOLEAN,
     parts : UNION {[1..n -> PathParts] : n \in 0..MaxPathParts}]

ToolCalls ==
    [op : {"write_file", "read_file", "list_files"}, path : PathArguments,
     os : {"ok", "absent", "error"}, done : {FALSE}, result : {"-"}, touched : {{}}]

ToolsInit ==
    /\ node = "planner"
    /\ state = [EmptyState EXCEPT !.user_prompt = "build a todo app"]
    /\ disk = [p \in AllPaths |-> 0]
    /\ recursion_limit = DefaultRecursionLimit
    /\ calls = [n \in Stages |-> 0]
    /\ last = "none"
    /\ io = IoNone
    /\ recovery = NoRecovery
    /\ tool \in ToolCalls

\* what a tool call leaves behind
called(outcome) ==
    [tool EXCEPT !.done = TRUE, !.result = outcome.result, !.touched = outcome.touched]

writes_file ==
    /\ tool.op = "write_file"
    /\ ~tool.done
    /\ tool.os # "absent"
    /\ tool' = called(write_file(tool.path, tool.os))
    /\ UNCHANGED <<node, state, disk, recursion_limit, calls, last, io, recovery>>

reads_file ==
    /\ tool.op = "read_file"
    /\ ~tool.done
    /\ tool' = called(read_file(tool.path, tool.os))
    /\ UNCHANGED <<node, state, disk, recursion_limit, calls, last, io, recovery>>

lists_files ==
    /\ tool.op = "list_files"
    /\ ~tool.done
    /\ tool' = called(list_files(tool.path, tool.os))
    /\ UNCHANGED <<node, state, disk, recursion_limit, calls, last, io, recovery>>

ToolsNext ==
    \/ writes_file
    \/ reads_file
    \/ lists_files

ToolsSpec == ToolsInit /\ [][ToolsNext]_vars

-----------------------------------------------------------------------------
(* One Reviewer pass over any content of the file under review: texts of up
   to MaxContentLen characters, blank or not, kept in io.text *)

MaxContentLen == 6

Chars == {"a", " "}

Contents == UNION {[1..n -> Chars] : n \in 0..MaxContentLen}

ContentTaskPlan == [implementation_steps |-> <<Task("index.html", 0)>>]

\* the state dict of a first pass and of a re-review of the file
ContentPriorStates ==
    {[EmptyState EXCEPT !.user_prompt = "build a todo app",
                        !.plan = CHOOSE p \in Plans : TRUE,
                        !.task_plan = ContentTaskPlan,
                        !.coder_state = AssumedCoderState(ContentTaskPlan),
                        !.review_state = rs,
                        !.current_phase = "coding", !.status = "coded"] :
        rs \in {None,
                [reviews |-> <<CodeReview("index.html", FALSE, 1)>>, iteration |-> 0,
                 max_iterations |-> DefaultMaxIterations, all_passed |-> FALSE]}}

ContentInit ==
    /\ node = "reviewer"
    /\ state \in ContentPriorStates
    /\ \E n \in 0..MaxContentLen :
          disk = [p \in AllPaths |-> IF p = "index.html" THEN n ELSE 0]
    /\ recursion_limit = DefaultRecursionLimit
    /\ calls = [n \in Stages |-> 0]
    /\ last = "none"
    /\ io = IoNone
    /\ recovery = NoRecovery
    /\ tool = NoTool

\* reviewer_agent, with the text read_file returns for the file (reviewer.py:186)
\* and the length the check of reviewer.py:188 takes of it
reviewer_reads ==
    /\ Runs("reviewer")
    /\ \E content \in Contents :
        /\ Len(content) = disk["index.html"]
        /\ LET d == [disk EXCEPT !["index.html"] = Len(strip(content))]
           IN  \E outs \in Product(review_choices(state, d)) :
                 LET r == reviewer_return(state, d, outs)
                 IN /\ state' = r.state
                    /\ io' = [IoNone EXCEPT !.reads = r.reads, !.requests = r.requests,
                                            !.text = content]
    /\ node' = route_after_review(state')
    /\ UNCHANGED disk

ContentNext == reviewer_reads

ContentSpec == ContentInit /\ [][ContentNext]_vars

----------------------------------------------------------------------------
(* Properties *)

LoopBoundedByCap ==
    calls["fixer"] <= 5 /\ calls["reviewer"] <= 6

\* C2 case: a run in which no review/fix cycle was enough
LoopRanToTheCap ==
    /\ calls["fixer"] = 5 /\ calls["reviewer"] = 6
    /\ state.review_state # None
    /\ state.review_state.iteration = state.review_state.max_iterations

\* C3: one Reviewer pass over a prior ReviewState with iteration >=
\* max_iterations returns a ReviewState with all_passed true and neither reads
\* a file nor issues a review request, whatever is on disk.
CapForcesAcceptance ==
    [][(/\ node = "reviewer"
        /\ state.review_state # None
        /\ state.review_state.iteration >= state.review_state.max_iterations)
       => (/\ state'.review_state # None
           /\ state'.review_state.all_passed
           /\ io'.requests = {} /\ io'.reads = {})]_vars

\* C3 case: a pass over a prior state at or past the cap, with a failed earlier
\* review and file content on disk
AcceptedPastTheCap ==
    /\ last = "reviewer"
    /\ state.review_state # None
    /\ state.review_state.iteration > state.review_state.max_iterations
    /\ state.review_state.all_passed
    /\ state.status = "review_max_iterations"
    /\ Len(state.review_state.reviews) < Len(state.task_plan.implementation_steps)
    /\ \A p \in Paths : disk[p] > 0

\* C4: in every CoderState, len(completed_files) + len(failed_files) equals
\* current_step_idx.
CoverageCount ==
    state.coder_state # None =>
        Len(state.coder_state.completed_files) + Len(state.coder_state.failed_files)
            = state.coder_state.current_step_idx

\* C4 case: both steps of a two-step TaskPlan attempted, one failed
TwoStepsOneFailed ==
    /\ last = "coder"
    /\ state.coder_state # None
    /\ state.coder_state.current_step_idx = 2
    /\ Len(state.coder_state.failed_files) = 1
    /\ Len(state.coder_state.completed_files) = 1

\* C5: in every CoderState, completed_files and failed_files share no filepath.
CompletedFailedDisjoint ==
    state.coder_state # None =>
        Range(state.coder_state.completed_files)
            \cap Range(state.coder_state.failed_files) = {}

\* C6: every CodeReview of a ReviewState the Reviewer returns that has
\* passed = false has at least one issue.
FailedReviewHasIssue ==
    (last = "reviewer" /\ state.review_state # None) =>
        \A i \in 1..Len(state.review_state.reviews) :
            ~state.review_state.reviews[i].passed
                => state.review_state.reviews[i].issues >= 1

\* C6 case: a pass that asked for a review and returned a failed one
FailedReviewReturned ==
    /\ last = "reviewer"
    /\ state.review_state # None
    /\ io.requests # {}
    /\ \E i \in 1..Len(state.review_state.reviews) :
          ~state.review_state.reviews[i].passed

\* C7: after a Coder invocation that holds a CoderState, the Coder is selected
\* exactly when current_step_idx < the number of steps and the Reviewer
\* otherwise, the status is "coding" in the first case and "coded" in the
\* second, and the Reviewer never runs next while a step is unattempted.
CoderRouting ==
    /\ (last = "coder" /\ node \in Stages /\ state.coder_state # None) =>
          LET remaining == state.coder_state.current_step_idx
                               < Len(state.task_plan.implementation_steps)
          IN /\ (node = "coder") <=> remaining
             /\ (node = "reviewer") <=> ~remaining
             /\ (state.status = "coding") <=> remaining
             /\ (state.status = "coded") <=> ~remaining
    /\ (node = "reviewer" /\ state.task_plan # None) =>
          /\ state.coder_state # None
          /\ state.coder_state.current_step_idx
                = Len(state.task_plan.implementation_steps)

\* C7 case: the Coder is selected again after the first of two steps
CoderSelectedAgain ==
    /\ last = "coder" /\ node = "coder"
    /\ state.status = "coding"
    /\ state.coder_state.current_step_idx = 1

\* C8: after a Reviewer invocation that returned a ReviewState, the
\* TestGenerator is selected if all_passed or iteration >= max_iterations, and
\* the Fixer in every other case.
ReviewRouting ==
    (last = "reviewer" /\ node \in Stages /\ state.review_state # None) =>
        LET accepted == \/ state.review_state.all_passed
                        \/ state.review_state.iteration >= state.review_state.max_iterations
        IN /\ accepted => node = "test_generator"
           /\ ~accepted => node = "fixer"

\* C8 case: the Fixer is selected on the last iteration below the cap
FixerSelectedBelowCap ==
    /\ last = "reviewer" /\ node = "fixer"
    /\ state.review_state.iteration = state.review_state.max_iterations - 1

\* C9: after a Fixer invocation the Reviewer runs next, and unless the cap
\* forces acceptance that pass reads again every file whose earlier review
\* failed.
FailedFilesReviewedAgain ==
    [][/\ (last' = "fixer" /\ node' \in Stages) => node' = "reviewer"
       /\ (last = "fixer" /\ last' = "reviewer")
          => (\/ state.review_state.iteration + 1 >= state.review_state.max_iterations
              \/ \A i \in 1..Len(state.review_state.reviews) :
                    ~state.review_state.reviews[i].passed
                       => state.review_state.reviews[i].filepath \in io'.reads)]_vars

\* C10: when the Planner handed on no Plan (empty prompt, or generation and
\* recovery both failed), the status the run ends with is FAILED.
NoPlanEndsFailed ==
    [][(node = "finalizer" /\ state.plan = None /\ node' = "END")
       => state'.status = "FAILED"]_vars

ArchitectAlwaysArchitects ==
    [][node = "architect" =>
         IF state.plan # None
         THEN /\ state'.status = "architected"
              /\ state'.current_phase = "architecting"
              /\ state'.task_plan # None
              /\ state'.plan = state.plan
         ELSE /\ state'.status = "FAILED"
              /\ state'.current_phase = "failed"
              /\ state'.task_plan = None]_vars

\* C12 case: the structured request raised without a recoverable payload and a
\* TaskPlan came back
ArchitectedAfterRaise ==
    /\ last = "architect"
    /\ io.structured = "raises"
    /\ state.status = "architected"
    /\ Len(state.task_plan.implementation_steps) = MaxPlanFiles

\* C13: the TaskPlan the Architect returns is sorted by priority,
\* non-decreasing, on the structured, the recovered and the fallback path, and
\* each Coder invocation attempts the step at current_step_idx of that list.
StepsSortedAndFollowed ==
    [][/\ (last' = "architect" /\ state'.task_plan # None) =>
            \A i, j \in 1..Len(state'.task_plan.implementation_steps) :
                i < j => state'.task_plan.implementation_steps[i].priority
                           <= state'.task_plan.implementation_steps[j].priority
       /\ (node = "coder" /\ coder_attempts(state)) =>
            LET before == entry_coder_state(state)
                after == state'.coder_state
                k == before.current_step_idx + 1
                attempted == state.task_plan.implementation_steps[k].filepath
            IN /\ state'.task_plan = state.task_plan
               /\ after.current_step_idx = k
               /\ \/ after.completed_files = Append(before.completed_files, attempted)
                     /\ after.failed_files = before.failed_files
                  \/ after.failed_files = Append(before.failed_files, attempted)
                     /\ after.completed_files = before.completed_files]_vars

\* C13 case: the LLM's steps came out of priority order and the Coder went
\* through both in sorted order
SortedLlmStepsCoded ==
    /\ last = "coder" /\ node = "reviewer"
    /\ state.plan # None /\ state.task_plan # None
    /\ state.task_plan.implementation_steps
          = <<[Task("index.html", 1) EXCEPT !.dependencies = <<"script.js">>],
              Task("script.js", 3)>>
    /\ Len(state.plan.files) = 0
    /\ state.coder_state.current_step_idx = 2
    /\ state.coder_state.completed_files = <<"index.html", "script.js">>

\* C14 (as the code has it): for the Plan index.html, style.css, script.js the
\* fallback synthesizer assigns the priorities 1, 2 and 3 and returns the steps
\* in the order index.html, style.css, script.js.
FallbackPrioritiesByExtension ==
    [][(/\ node = "architect"
        /\ state.plan # None
        /\ state.plan.files = <<"index.html", "style.css", "script.js">>
        /\ io'.structured \in {"none", "garbage", "raises"})
       => LET steps_ == state'.task_plan.implementation_steps
          IN  [i \in 1..Len(steps_) |-> <<steps_[i].filepath, steps_[i].priority>>]
                = <<<<"index.html", 1>>, <<"style.css", 2>>, <<"script.js", 3>>>>]_vars

\* C14 case: the fallback ran on the Plan index.html, style.css, script.js
FallbackOnWebPlan ==
    /\ last = "architect"
    /\ io.structured = "garbage"
    /\ state.plan.files = <<"index.html", "style.css", "script.js">>
    /\ Len(state.task_plan.implementation_steps) = 3

\* C14 (as stated): the fallback synthesizer assigns index.html priority 0,
\* style.css priority 2 and script.js priority 3, in that order.
FallbackPrioritiesAsStated ==
    [][(/\ node = "architect"
        /\ state.plan # None
        /\ state.plan.files = <<"index.html", "style.css", "script.js">>
        /\ io'.structured \in {"none", "garbage", "raises"})
       => LET steps_ == state'.task_plan.implementation_steps
          IN  [i \in 1..Len(steps_) |-> <<steps_[i].filepath, steps_[i].priority>>]
                = <<<<"index.html", 0>>, <<"style.css", 2>>, <<"script.js", 3>>>>]_vars

\* C15: when every generation tier fails for a step, or an error escapes the
\* tiers, the step's filepath is appended to failed_files, completed_files is
\* left alone and current_step_idx advances by one, so the step is not
\* attempted again and the next invocation attempts the following step; once
\* the index reaches the number of steps the status is "coded".
FailedStepIsSkipped ==
    [][(/\ node = "coder"
        /\ coder_attempts(state)
        /\ \/ io'.tiers.tier1 = "escapes"
           \/ /\ io'.tiers.tier1 \in {"failed_generation", "raises"}
              /\ io'.tiers.tier2 # "written"
              /\ io'.tiers.tier3 \in {"empty", "write_failed", "raises"})
       => LET before == entry_coder_state(state)
              after == state'.coder_state
              n == Len(state.task_plan.implementation_steps)
          IN /\ after.failed_files = Append(before.failed_files, current_task(state))
             /\ after.completed_files = before.completed_files
             /\ after.current_step_idx = before.current_step_idx + 1
             /\ state'.task_plan = state.task_plan
             /\ state'.status = IF after.current_step_idx >= n THEN "coded" ELSE "coding"
             /\ after.current_step_idx < n => node' = "coder"]_vars

\* C15 case: in a two-step plan every tier failed for the first step and the
\* second step was written
FirstFailedSecondWritten ==
    /\ last = "coder"
    /\ state.task_plan # None
    /\ Len(state.task_plan.implementation_steps) = 2
    /\ io.tiers.tier1 = "returns"
    /\ state.coder_state.current_step_idx = 2
    /\ state.coder_state.failed_files = <<state.task_plan.implementation_steps[1].filepath>>
    /\ state.coder_state.completed_files = <<state.task_plan.implementation_steps[2].filepath>>
    /\ state.status = "coded"

\* C16: a Reviewer pass over a ReviewState whose reviews all passed returns
\* a ReviewState with the same passed filepaths and the same review records,
\* all_passed true, and sends no review request for any of those files.
PassedReviewsKept ==
    [][(/\ node = "reviewer"
        /\ state.review_state # None
        /\ state.review_state.reviews # <<>>
        /\ \A i \in 1..Len(state.review_state.reviews) :
              state.review_state.reviews[i].passed)
       => /\ {r.filepath : r \in {x \in Range(state'.review_state.reviews) : x.passed}}
               = {r.filepath : r \in Range(state.review_state.reviews)}
          /\ state'.review_state.reviews = state.review_state.reviews
          /\ state'.review_state.all_passed
          /\ io'.requests \cap {r.filepath : r \in Range(state.review_state.reviews)} = {}]_vars

RecoveredEqualsEmbedded ==
    (recovery.done /\ recovery.kind = "valid") => recovery.result = recovery.record

\* C21: every read, write and list touches only locations inside the project
\* root, and a relative path that resolves outside the root (traversal) gets
\* an error result and touches nothing, for every path argument.
PathsConfined ==
    tool.done =>
        /\ \A loc \in tool.touched : relative_to(loc, PROJECT_ROOT)
        /\ (~tool.path.absolute
            /\ ~relative_to(resolve(PROJECT_ROOT, tool.path.parts), PROJECT_ROOT))
              => (tool.result = "ERROR" /\ tool.touched = {})

\* a write through "../.." was rejected
TraversalRejected ==
    /\ tool.done
    /\ tool.op = "write_file"
    /\ tool.os = "ok"
    /\ tool.path = [absolute |-> FALSE, parts |-> <<"..", "..", "index.html">>]
    /\ tool.result = "ERROR"
    /\ tool.touched = {}

\* C22 (as stated): no stage erases an error string an earlier stage recorded:
\* the error list of the state dict only grows, so the result handed to the
\* caller lists every error of the run.
ErrorsAccumulate ==
    [][Range(state.errors) \subseteq Range(state'.errors)]_vars

\* C23: a Coder invocation with steps remaining adds exactly 1 to
\* current_step_idx, one with no steps remaining hands the CoderState on as it
\* is, the index never decreases, and 0 <= current_step_idx <= number of steps.
CoderIndexAdvances ==
    [][LET before == IF state.coder_state = None THEN NewCoderState ELSE state.coder_state
           coder_ran == calls'["coder"] = calls["coder"] + 1
       IN  /\ (coder_ran /\ state.task_plan # None
               /\ before.current_step_idx < Len(state.task_plan.implementation_steps))
                 => state'.coder_state.current_step_idx = before.current_step_idx + 1
           /\ (coder_ran /\ state.task_plan # None
               /\ before.current_step_idx >= Len(state.task_plan.implementation_steps))
                 => state'.coder_state = before
           /\ (state.coder_state # None /\ state'.coder_state # None)
                 => state'.coder_state.current_step_idx >= state.coder_state.current_step_idx
           /\ (state'.coder_state # None /\ state'.task_plan # None)
                 => state'.coder_state.current_step_idx
                        \in 0..Len(state'.task_plan.implementation_steps)
      ]_vars

\* the second of two steps was coded: the index went from 1 to 2
IndexReachedTheEnd ==
    /\ last = "coder"
    /\ calls["coder"] = 2
    /\ state.task_plan # None
    /\ state.coder_state # None
    /\ Len(state.task_plan.implementation_steps) = 2
    /\ state.coder_state.current_step_idx = 2

\* C24: within one Coder step tier 2 runs only after tier 1 raised a
\* tool-call-format failure, tier 3 only after tier 1 raised and tier 2 wrote
\* no file; when tier 1 returns no later tier runs and the step's file is
\* recorded completed; an error raised in tier 3 leaves the step failed and the
\* Coder returns its dict all the same.
TiersEscalateInOrder ==
    [][(calls'["coder"] = calls["coder"] + 1 /\ io'.tiers.tier1 # "-") =>
          LET t == io'.tiers
              before == IF state.coder_state = None THEN NewCoderState ELSE state.coder_state
              filepath == state.task_plan.implementation_steps[before.current_step_idx + 1].filepath
              after == state'.coder_state
          IN  /\ t.tier2 # "-" => t.tier1 = "failed_generation"
              /\ t.tier3 # "-" => (t.tier1 \in {"failed_generation", "raises"}
                                    /\ t.tier2 # "written")
              /\ t.tier1 = "returns" =>
                    /\ t.tier2 = "-" /\ t.tier3 = "-"
                    /\ after.completed_files = Append(before.completed_files, filepath)
                    /\ after.failed_files = before.failed_files
              /\ t.tier3 = "raises" =>
                    /\ after.failed_files = Append(before.failed_files, filepath)
                    /\ after.completed_files = before.completed_files
                    /\ disk' = disk
                    /\ state'.status \in {"coding", "coded"}
      ]_vars

\* a step went through all three tiers and the third one raised
ThirdTierRaised ==
    /\ last = "coder"
    /\ io.tiers.tier1 = "failed_generation"
    /\ io.tiers.tier2 = "not_written"
    /\ io.tiers.tier3 = "raises"
    /\ state.coder_state # None
    /\ state.coder_state.failed_files # <<>>

\* C25 (as stated): for a candidate file that is missing, empty or unreadable
\* the Fixer records a failure and gives the file up: no generation request,
\* nothing written, and the file reported as failed only, never as fixed.
UnreadableCandidateGivenUp ==
    [][\A i \in 1..Len(fixer_candidates(state)) :
          LET filepath == fixer_candidates(state)[i]
          IN  (io'.fixes # <<>> /\ (io'.fixes[i].read = "error" \/ disk[filepath] = 0)) =>
                  /\ filepath \in Range(io'.failed_fixes)
                  /\ filepath \notin io'.requests
                  /\ disk'[filepath] = disk[filepath]
                  /\ filepath \notin Range(io'.fixed_files)
      ]_vars

\* C26 (as stated): a file that has a CodeReview in one ReviewState of a run has
\* one in every later ReviewState of the run, the pass that the iteration cap
\* forces to accept included.
ReviewedFilesStayReviewed ==
    [][(state.review_state # None /\ state'.review_state # None) =>
          \A i \in 1..Len(state.review_state.reviews) :
              \E j \in 1..Len(state'.review_state.reviews) :
                  state'.review_state.reviews[j].filepath
                      = state.review_state.reviews[i].filepath
      ]_vars

\* C27 (as stated): no ReviewState the Reviewer returns holds two CodeReview
\* entries for the same filepath, whatever TaskPlan the Architect handed over.
OneReviewPerFile ==
    (last = "reviewer" /\ state.review_state # None) =>
        \A i, j \in 1..Len(state.review_state.reviews) :
            state.review_state.reviews[i].filepath = state.review_state.reviews[j].filepath
                => i = j

\* C28: the review iteration counter never decreases during a run: the first
\* Reviewer pass sets it to 0, every later pass adds exactly 1, the Fixer
\* leaves it as it is, and max_iterations keeps its value from pass to pass.
IterationCounts ==
    [][/\ (calls'["reviewer"] = calls["reviewer"] + 1 /\ state'.review_state # None) =>
            IF state.review_state = None
            THEN state'.review_state.iteration = 0
            ELSE /\ state'.review_state.iteration = state.review_state.iteration + 1
                 /\ state'.review_state.max_iterations = state.review_state.max_iterations
       /\ (calls'["fixer"] = calls["fixer"] + 1 /\ state.review_state # None) =>
            /\ state'.review_state # None
            /\ state'.review_state.iteration = state.review_state.iteration
            /\ state'.review_state.max_iterations = state.review_state.max_iterations
       /\ (state.review_state # None /\ state'.review_state # None) =>
            state'.review_state.iteration >= state.review_state.iteration
      ]_vars

\* the second Reviewer pass, after one Fixer pass, counted 1
SecondPassCounted ==
    /\ last = "reviewer"
    /\ calls["reviewer"] = 2
    /\ calls["fixer"] = 1
    /\ state.review_state # None
    /\ state.review_state.iteration = 1
    /\ state.review_state.max_iterations = DefaultMaxIterations

\* C29: a Fixer invocation leaves iteration and all_passed as they were and
\* does not change the passed flag of any review that has issues, whether its
\* fixes were written or rejected.
FixerDoesNotFlipReviews ==
    [][(calls'["fixer"] = calls["fixer"] + 1 /\ state.review_state # None) =>
          LET before == state.review_state
              after == state'.review_state
          IN  /\ after # None
              /\ after.iteration = before.iteration
              /\ after.all_passed = before.all_passed
              /\ Len(after.reviews) = Len(before.reviews)
              /\ \A i \in 1..Len(before.reviews) :
                    before.reviews[i].issues > 0 =>
                        /\ after.reviews[i].filepath = before.reviews[i].filepath
                        /\ after.reviews[i].passed = before.reviews[i].passed
      ]_vars

\* a fix was written and the file's review is still a failed one
FixedFileStillFailed ==
    /\ last = "fixer"
    /\ io.fixed_files # <<>>
    /\ state.review_state # None
    /\ ~state.review_state.all_passed
    /\ \E i \in 1..Len(state.review_state.reviews) :
          /\ state.review_state.reviews[i].filepath \in Range(io.fixed_files)
          /\ ~state.review_state.reviews[i].passed
          /\ state.review_state.reviews[i].issues > 0

\* the number of characters of a text that are not blank
RECURSIVE NonBlank(_)
NonBlank(content) ==
    IF content = <<>> THEN 0
    ELSE (IF content[1] = " " THEN 0 ELSE 1) + NonBlank(Tail(content))

\* what C30 says of a pass over a file the Reviewer takes as missing: a failed
\* review with exactly one critical issue and quality 0, no LLM request for
\* the file, and all_passed false
ReviewedAsMissing(after, asked) ==
    LET review == missing_file_review("index.html")
    IN  /\ Len(review.issues) = 1
        /\ review.issues[1].severity = "critical"
        /\ review.overall_quality = 0
        /\ ~review.passed
        /\ after.review_state # None
        /\ after.review_state.reviews = <<Counted(review)>>
        /\ ~after.review_state.all_passed
        /\ "index.html" \notin asked

\* C30 (as the code has it): when the file under review is missing, empty or
\* has fewer than 5 characters once leading and trailing blanks are stripped,
\* the Reviewer records a failed review with exactly one critical issue and
\* quality 0 without issuing an LLM request, and all_passed is false.
ShortContentFailsUnasked ==
    [][(calls'["reviewer"] = calls["reviewer"] + 1 /\ Len(strip(io'.text)) < 5)
          => ReviewedAsMissing(state', io'.requests)]_vars

\* a text of six characters, two of them between blanks, was failed unasked
PaddedTextFailed ==
    /\ last = "reviewer"
    /\ io.text = <<" ", " ", "a", "a", " ", " ">>
    /\ io.requests = {}
    /\ io.reads = {"index.html"}
    /\ state.review_state # None
    /\ state.review_state.reviews = <<CodeReview("index.html", FALSE, 1)>>
    /\ ~state.review_state.all_passed

\* C30 (as stated): the same for every file with fewer than 5 non-blank
\* characters.
FewNonBlankFailsUnasked ==
    [][(calls'["reviewer"] = calls["reviewer"] + 1 /\ NonBlank(io'.text) < 5)
          => ReviewedAsMissing(state', io'.requests)]_vars

\* C31: an error raised while reviewing one file does not end the Reviewer
\* pass: the file gets a passed review with the error summary, every other
\* step of the pass that is due a review still gets one, and the pass returns
\* status "reviewed".
ReviewErrorIsSwallowed ==
    [][(calls'["reviewer"] = calls["reviewer"] + 1
        /\ \E i \in 1..Len(io'.outcomes) :
              /\ io'.outcomes[i].kind = "error"
              /\ state.task_plan.implementation_steps[i].filepath \in io'.requests) =>
          LET steps_ == state.task_plan.implementation_steps
              existing == state.review_state.reviews
              preserved(k) == \E j \in 1..Len(existing) :
                                 existing[j].passed /\ existing[j].filepath = steps_[k].filepath
              queued(k) == \E j \in 1..Len(existing) :
                              ~existing[j].passed /\ existing[j].filepath = steps_[k].filepath
              after == state'.review_state
          IN  /\ state'.status = "reviewed"
              /\ after # None
              /\ Len(after.reviews)
                    = Cardinality({k \in 1..Len(steps_) : preserved(k) \/ queued(k)})
              /\ \A k \in 1..Len(steps_) :
                    (queued(k) /\ ~preserved(k)) => steps_[k].filepath \in io'.reads
              /\ \A i \in 1..Len(steps_) :
                    (io'.outcomes[i].kind = "error" /\ steps_[i].filepath \in io'.requests) =>
                        \E j \in 1..Len(after.reviews) :
                            /\ after.reviews[j] = Counted(error_review(steps_[i].filepath))
                            /\ after.reviews[j].passed
                            /\ error_review(steps_[i].filepath).summary = "Review error"
      ]_vars

\* the review of the first of two files raised and the second was failed by the LLM
ErrorThenFailedReview ==
    /\ last = "reviewer"
    /\ Len(io.outcomes) = 2
    /\ io.outcomes[1].kind = "error"
    /\ io.outcomes[2].kind = "structured"
    /\ io.requests = {"index.html", "script.js"}
    /\ state.status = "reviewed"
    /\ state.review_state # None
    /\ Len(state.review_state.reviews) = 2
    /\ state.review_state.reviews[1].passed
    /\ ~state.review_state.reviews[2].passed

\* C32: the fallback synthesizer returns exactly one task per Plan file, under
\* that file's path; each task depends on exactly the paths declared before
\* its file in the Plan, in declaration order; and tasks of equal priority
\* stay in the Plan's declaration order.
FallbackTasksFollowThePlan ==
    [][(/\ node = "architect"
        /\ state.plan # None
        /\ io'.structured \in {"none", "garbage", "raises"})
       => LET files == state.plan.files
              steps_ == state'.task_plan.implementation_steps
              \* the position in the Plan of the file of step j
              declared(j) == CHOOSE i \in 1..Len(files) : files[i] = steps_[j].filepath
          IN  /\ Len(steps_) = Len(files)
              /\ \A i \in 1..Len(files) :
                    Cardinality({j \in 1..Len(steps_) : steps_[j].filepath = files[i]}) = 1
              /\ \A j \in 1..Len(steps_) :
                    steps_[j].dependencies = SubSeq(files, 1, declared(j) - 1)
              /\ \A j, k \in 1..Len(steps_) :
                    (j < k /\ steps_[j].priority = steps_[k].priority)
                        => declared(j) < declared(k)
      ]_vars

\* the fallback ran on a Plan whose first two files tie on priority 0
FallbackOnTiedPlan ==
    /\ last = "architect"
    /\ io.structured = "none"
    /\ state.plan # None /\ state.task_plan # None
    /\ state.plan.files = <<"Makefile", "data.json", "index.html">>
    /\ Len(state.task_plan.implementation_steps) = 3
    /\ state.task_plan.implementation_steps[1].filepath = "Makefile"
    /\ state.task_plan.implementation_steps[2].priority = 0
    /\ state.task_plan.implementation_steps[3].dependencies = <<"Makefile", "data.json">>

\* C33 (as stated): whenever a Plan is supplied, the TaskPlan the Architect
\* hands to the Coder has at least one step, for every Plan and LLM outcome.
TaskPlanNeverEmpty ==
    (last = "architect" /\ state.plan # None) =>
        /\ state.task_plan # None
        /\ Len(state.task_plan.implementation_steps) >= 1

\* C34 (as stated): a read or write whose path argument is absolute is rejected
\* with an error result and touches no file.
AbsolutePathRejected ==
    (tool.done /\ tool.path.absolute /\ tool.op \in {"read_file", "write_file"}) =>
        /\ tool.result = "ERROR"
        /\ tool.touched = {}

\* C35: a stage that finds its required input absent (Planner: no user prompt,
\* Architect: no Plan, Coder: no TaskPlan) returns phase FAILED with one error
\* string, issues no LLM request, writes no file, and is not invoked again in
\* the run.
AbsentInputFailsOnce ==
    [][LET ran(n) == calls'[n] = calls[n] + 1
           failed == /\ state'.current_phase = "failed"
                     /\ state'.status = "FAILED"
                     /\ Len(state'.errors) = 1
                     /\ disk' = disk
                     /\ io'.requests = {}
       IN  /\ (ran("planner") /\ state.user_prompt \in {"", NoStr})
                => (failed /\ io'.structured = "-")
           /\ (ran("architect") /\ state.plan = None)
                => (failed /\ io'.structured = "-")
           /\ (ran("coder") /\ state.task_plan = None)
                => (failed /\ io'.tiers = NoTiers /\ node' # "coder")
           /\ calls'["planner"] <= 1
           /\ calls'["architect"] <= 1
           /\ (node \notin {"architect", "coder"}) => node' # "coder"
      ]_vars

\* Planner, Architect and Coder each failed on its absent input, once
ThreeStagesFailedOnce ==
    /\ last = "coder"
    /\ node = "reviewer"
    /\ state.status = "FAILED"
    /\ state.errors = <<"No task plan provided to coder">>
    /\ calls["planner"] = 1 /\ calls["architect"] = 1 /\ calls["coder"] = 1
    /\ io.tiers = NoTiers

\* C36: a run with N TaskPlan steps and iteration cap M makes at most
\* max(N, 1) + 2*M + 6 stage invocations: Planner 1, Architect 1, Coder
\* max(N, 1), Reviewer at most M + 1, Fixer at most M, TestGenerator,
\* TestRunner and Finalizer 1 each.  (N and M are read before the step when
\* the step's stage drops them from the state dict.)
InvocationsBounded ==
    [][LET known == IF state'.task_plan # None THEN state' ELSE state
           N == IF known.task_plan = None THEN 0
                ELSE Len(known.task_plan.implementation_steps)
           cap == IF state'.review_state # None THEN state'.review_state
                  ELSE state.review_state
           M == IF cap = None THEN DefaultMaxIterations ELSE cap.max_iterations
           coder_most == IF N >= 1 THEN N ELSE 1
       IN  /\ calls'["planner"] <= 1
           /\ calls'["architect"] <= 1
           /\ calls'["coder"] <= coder_most
           /\ calls'["reviewer"] <= M + 1
           /\ calls'["fixer"] <= M
           /\ calls'["test_generator"] <= 1
           /\ calls'["test_runner"] <= 1
           /\ calls'["finalizer"] <= 1
           /\ SumCalls(calls', Stages) <= coder_most + 2 * M + 6
      ]_vars

\* a run of two steps that went round the review loop to the cap ended after
\* 2 + 2*5 + 6 = 18 invocations
RunUsedEveryInvocation ==
    /\ node = "END"
    /\ last = "finalizer"
    /\ calls["coder"] = 2
    /\ calls["reviewer"] = DefaultMaxIterations + 1
    /\ calls["fixer"] = DefaultMaxIterations
    /\ steps = 2 + 2 * DefaultMaxIterations + 6

\* the filepaths that have a passed CodeReview in a ReviewState
passed_filepaths(review_state) ==
    {review_state.reviews[i].filepath :
        i \in {j \in 1..Len(review_state.reviews) : review_state.reviews[j].passed}}

\* C37 (as stated): a file whose review has passed in a ReviewState is marked
\* passed in the next ReviewState that contains it, the Reviewer sends no
\* review request for it, the Fixer does not rewrite it, and the set of
\* passed filepaths only grows from one ReviewState to the next.
PassedFilesAreSettled ==
    [][(state.review_state # None /\ state'.review_state # None) =>
          /\ passed_filepaths(state.review_state) \subseteq passed_filepaths(state'.review_state)
          /\ \A p \in passed_filepaths(state.review_state) :
                /\ \A i \in 1..Len(state'.review_state.reviews) :
                      state'.review_state.reviews[i].filepath = p
                          => state'.review_state.reviews[i].passed
                /\ calls'["reviewer"] = calls["reviewer"] + 1 => p \notin io'.requests
                /\ calls'["fixer"] = calls["fixer"] + 1 =>
                      /\ p \notin Range(io'.fixed_files)
                      /\ disk'[p] = disk[p]
      ]_vars

\* C38 (as stated): after a Reviewer pass that is not a forced acceptance the
\* filepaths of ReviewState.reviews are the filepaths of the TaskPlan steps,
\* in step order, and all_passed is true exactly when every review in the
\* list has passed.
ReviewsFollowTheSteps ==
    (/\ last = "reviewer"
     /\ state.review_state # None
     /\ state.task_plan # None
     /\ state.status = "reviewed") =>
        LET reviews == state.review_state.reviews
            steps_ == state.task_plan.implementation_steps
        IN  /\ [i \in 1..Len(reviews) |-> reviews[i].filepath]
                  = [i \in 1..Len(steps_) |-> steps_[i].filepath]
            /\ state.review_state.all_passed
                  <=> \A i \in 1..Len(reviews) : reviews[i].passed

\* C39: the Fixer is invoked only in states where a ReviewState exists,
\* all_passed is false, iteration < max_iterations and at least one review
\* failed with a non-empty issue list; no review that reaches it failed
\* without issues, so neither its "no review state" branch nor its
\* "no issues, promote to passed" branch is taken in a pipeline run.
FixerInvokedWithWorkToDo ==
    node = "fixer" =>
        /\ state.review_state # None
        /\ ~state.review_state.all_passed
        /\ state.review_state.iteration < state.review_state.max_iterations
        /\ fixer_candidates(state) # <<>>
        /\ \E i \in 1..Len(state.review_state.reviews) :
              /\ ~state.review_state.reviews[i].passed
              /\ state.review_state.reviews[i].issues > 0
        /\ \A i \in 1..Len(state.review_state.reviews) :
              ~state.review_state.reviews[i].passed
                  => state.review_state.reviews[i].issues > 0
        /\ promote_no_issues(state.review_state.reviews) = state.review_state.reviews

\* the Fixer is about to run for the last time the cap allows, on a
\* ReviewState with one passed and one failed review
FixerSelectedBelowTheCap ==
    /\ node = "fixer"
    /\ last = "reviewer"
    /\ state.review_state # None
    /\ state.review_state.iteration = state.review_state.max_iterations - 1
    /\ Len(state.review_state.reviews) = 2
    /\ state.review_state.reviews[1].passed
    /\ ~state.review_state.reviews[2].passed
    /\ state.review_state.reviews[2].issues > 0

==============================================================================
